---- MODULE Spec2Model ----
(***************************************************************************)
(* Sigma protocols for linear relations over a prime-order group, with the *)
(* Fiat-Shamir transform (src/poc).                                        *)
(*                                                                         *)
(* The group is a short-Weierstrass curve y^2 = x^3 + a*x + b over GF(p)   *)
(* with a = p - 3, p = 3 (mod 4) and prime group order n, the shape of     *)
(* NIST P-256.  The 256-bit parameters are replaced by 9-bit ones, so a    *)
(* coordinate and a scalar take 2 bytes instead of 32; every other         *)
(* quantity (element length, proof length, squeeze length) is derived from *)
(* these as the code derives it.                                           *)
(*                                                                         *)
(* A Python exception is a value: every operation that can raise returns a *)
(* record whose field exc is "None" or the name of the exception.          *)
(***************************************************************************)
EXTENDS Integers, Sequences, FiniteSets, TLC

VARIABLES
    instances,    \* the statements in play, a sequence of LinearRelation
    witnesses,    \* the witness offered for each statement
    ciphersuite,  \* the name of the ciphersuite in use
    session,      \* per object: the NonInteractiveProof it holds, if made
    xof,          \* the bytes the hash functions have yielded so far
    rngs,         \* per object: the TestDRNG its prover was handed, as left
    outputs       \* per object: the outcome of its last call

vars == <<instances, witnesses, ciphersuite, session, xof, rngs, outputs>>

\* the two objects of test_vector: NIZK(session_id, instance) is built twice
Objects == {"first", "second"}

----------------------------------------------------------------------------
(* groups/p256.py: curve parameters (scaled down)                          *)

P256_p == 271
P256_n == 281
P256_a == P256_p - 3
P256_b == 3
Gx == 1
Gy == 1

\* x coordinate width in bytes: the literal 32 of GroupP256.serialize
FieldByteLength == 2

\* the None of Python, where an integer is expected
None == 0 - 1

----------------------------------------------------------------------------
(* groups/field.py: PrimeFieldElement, as its value and the modulus        *)

RECURSIVE pow(_, _, _)
\* Python's pow(base, exp, mod), exp >= 0
pow(base, exp, m) ==
    IF exp = 0 THEN 1 % m
    ELSE LET h == pow(base, exp \div 2, m)
             s == (h * h) % m
         IN IF exp % 2 = 1 THEN (s * (base % m)) % m ELSE s

Field_add(x, y, m) == (x + y) % m
Field_sub(x, y, m) == (x - y) % m
Field_mul(x, y, m) == (x * y) % m
Field_neg(x, m) == (0 - x) % m
Field_div(x, y, m) == (x * pow(y, m - 2, m)) % m

\* PrimeFieldElement.sqrt: implemented for p = 3 (mod 4) only; None when
\* the Euler criterion is not 1
sqrt(v, m) ==
    IF m % 4 # 3 THEN [exc |-> "NotImplementedError", val |-> None]
    ELSE IF pow(v, (m - 1) \div 2, m) # 1 THEN [exc |-> "None", val |-> None]
    ELSE [exc |-> "None", val |-> pow(v, (m + 1) \div 4, m)]

is_square(v, m) ==
    IF v = 0 THEN TRUE ELSE pow(v, (m - 1) \div 2, m) = 1

----------------------------------------------------------------------------
(* groups/elliptic_curve.py: EllipticCurvePoint                            *)

\* curve.infinity(): x is None and y is None
Infinity == [is_infinity |-> TRUE, x |-> None, y |-> None]

Point(px, py) == [is_infinity |-> FALSE, x |-> px, y |-> py]

\* the test of EllipticCurve.__call__
OnCurve(P) ==
    \/ P.is_infinity
    \/ Field_mul(P.y, P.y, P256_p) =
         Field_add(Field_add(Field_mul(Field_mul(P.x, P.x, P256_p), P.x, P256_p),
                             Field_mul(P256_a, P.x, P256_p), P256_p),
                   P256_b, P256_p)

Point_add(P, Q) ==
    IF P.is_infinity THEN Q
    ELSE IF Q.is_infinity THEN P
    ELSE IF P.x = Q.x
    THEN IF P.y = Q.y
         THEN IF P.y = 0 THEN Infinity
              ELSE LET s == Field_div(
                              Field_add(Field_mul(Field_mul(3, P.x, P256_p), P.x, P256_p),
                                        P256_a, P256_p),
                              Field_mul(2, P.y, P256_p), P256_p)
                       x3 == Field_sub(Field_mul(s, s, P256_p),
                                       Field_mul(2, P.x, P256_p), P256_p)
                       y3 == Field_sub(Field_mul(s, Field_sub(P.x, x3, P256_p), P256_p),
                                       P.y, P256_p)
                   IN Point(x3, y3)
         ELSE Infinity
    ELSE LET s == Field_div(Field_sub(Q.y, P.y, P256_p),
                            Field_sub(Q.x, P.x, P256_p), P256_p)
             x3 == Field_sub(Field_sub(Field_mul(s, s, P256_p), P.x, P256_p),
                             Q.x, P256_p)
             y3 == Field_sub(Field_mul(s, Field_sub(P.x, x3, P256_p), P256_p),
                             P.y, P256_p)
         IN Point(x3, y3)

Point_neg(P) ==
    IF P.is_infinity THEN P ELSE Point(P.x, Field_neg(P.y, P256_p))

RECURSIVE MulLoop(_, _, _)
\* the while loop of __mul__: (result, addend, scalar)
MulLoop(result, addend, scalar) ==
    IF scalar = 0 THEN result
    ELSE MulLoop(IF scalar % 2 = 1 THEN Point_add(result, addend) ELSE result,
                 Point_add(addend, addend),
                 scalar \div 2)

Point_mul(P, scalar) ==
    IF scalar = 0 THEN Infinity
    ELSE IF scalar < 0 THEN MulLoop(Infinity, Point_neg(P), 0 - scalar)
    ELSE MulLoop(Infinity, P, scalar)

\* GroupP256.generator(), GroupP256.identity()
generator == Point(Gx, Gy)
identity == Infinity

----------------------------------------------------------------------------
(* Python sequences and byte strings (a byte string is a sequence of       *)
(* integers 0..255)                                                        *)

\* s[lo:hi] with 0 <= lo, as Python clamps it
Slice(s, lo, hi) ==
    LET h == IF hi > Len(s) THEN Len(s) ELSE hi
    IN IF lo >= h THEN <<>> ELSE SubSeq(s, lo + 1, h)

RECURSIVE Join(_)
\* b''.join(list)
Join(ss) == IF ss = <<>> THEN <<>> ELSE Head(ss) \o Join(Tail(ss))

\* [v] * count
Repeat(v, count) == [i \in 1..count |-> v]

RECURSIVE bit_length(_)
bit_length(v) == IF v = 0 THEN 0 ELSE 1 + bit_length(v \div 2)

RECURSIVE to_bytes_big(_, _)
\* int.to_bytes(length, 'big'), 0 <= v < 256^length
to_bytes_big(v, length) ==
    IF length = 0 THEN <<>>
    ELSE to_bytes_big(v \div 256, length - 1) \o <<v % 256>>

RECURSIVE to_bytes_little(_, _)
\* int.to_bytes(length, 'little'), 0 <= v < 256^length
to_bytes_little(v, length) ==
    IF length = 0 THEN <<>>
    ELSE <<v % 256>> \o to_bytes_little(v \div 256, length - 1)

RECURSIVE from_bytes_big(_)
from_bytes_big(s) ==
    IF s = <<>> THEN 0
    ELSE 256 * from_bytes_big(SubSeq(s, 1, Len(s) - 1)) + s[Len(s)]

RECURSIVE from_bytes_little(_)
from_bytes_little(s) ==
    IF s = <<>> THEN 0 ELSE Head(s) + 256 * from_bytes_little(Tail(s))

\* the result of an operation that returned val, or raised exc
Ok(val) == [exc |-> "None", val |-> val]
Raise(exc) == [exc |-> exc, val |-> <<>>]

----------------------------------------------------------------------------
(* groups/base.py: ScalarField (a scalar is the value of its               *)
(* PrimeFieldElement, an integer in 0..order-1)                            *)

order == P256_n

\* ScalarField.__init_subclass__: field_bytes_length
field_bytes_length == (bit_length(order) + 7) \div 8

scalar_byte_length == field_bytes_length

RECURSIVE Scalar_serialize(_)
Scalar_serialize(scalars) ==
    IF scalars = <<>> THEN <<>>
    ELSE to_bytes_little(Head(scalars), field_bytes_length)
           \o Scalar_serialize(Tail(scalars))

RECURSIVE Scalar_blocks(_)
\* the loop of ScalarField.deserialize: cls.field(value) reduces modulo order
Scalar_blocks(data) ==
    IF data = <<>> THEN <<>>
    ELSE <<from_bytes_little(Slice(data, 0, field_bytes_length)) % order>>
           \o Scalar_blocks(Slice(data, field_bytes_length, Len(data)))

Scalar_deserialize(data) ==
    IF Len(data) % field_bytes_length # 0 THEN Raise("ValueError")
    ELSE Ok(Scalar_blocks(data))

----------------------------------------------------------------------------
(* groups/p256.py: GroupP256 serialization                                 *)

element_byte_length == 1 + FieldByteLength

RECURSIVE Group_serialize_unsigned(_)
\* a serialization that writes the flag of an even y for every point
Group_serialize_unsigned(elements) ==
    IF elements = <<>> THEN <<>>
    ELSE LET element == Head(elements)
             enc == IF element.is_infinity
                    THEN <<0>> \o Repeat(0, FieldByteLength)
                    ELSE <<2>> \o to_bytes_big(element.x, FieldByteLength)
         IN enc \o Group_serialize_unsigned(Tail(elements))

RECURSIVE Group_serialize(_)
Group_serialize(elements) ==
    IF elements = <<>> THEN <<>>
    ELSE LET element == Head(elements)
             enc == IF element.is_infinity
                    THEN <<0>> \o Repeat(0, FieldByteLength)
                    ELSE <<IF element.y % 2 = 0 THEN 2 ELSE 3>>
                           \o to_bytes_big(element.x, FieldByteLength)
         IN enc \o Group_serialize(Tail(elements))

\* one block of a deserialize that takes any x for the x-coordinate of a
\* point, the square root of x^3 + ax + b computed without the Euler test
Group_block_unchecked(point_data) ==
    IF point_data[1] = 0 THEN Ok(identity)
    ELSE LET x == from_bytes_big(Slice(point_data, 1, Len(point_data))) % P256_p
             y_squared == Field_add(
                              Field_add(Field_mul(Field_mul(x, x, P256_p), x, P256_p),
                                        Field_mul(P256_a % P256_p, x, P256_p), P256_p),
                              P256_b % P256_p, P256_p)
         IN Ok(Point(x, pow(y_squared, (P256_p + 1) \div 4, P256_p)))

\* one block of GroupP256.deserialize
Group_block(point_data) ==
    IF point_data[1] = 0 THEN Ok(identity)
    ELSE LET flag == point_data[1]
             x == from_bytes_big(Slice(point_data, 1, Len(point_data))) % P256_p
             y_squared == Field_add(
                              Field_add(Field_mul(Field_mul(x, x, P256_p), x, P256_p),
                                        Field_mul(P256_a % P256_p, x, P256_p), P256_p),
                              P256_b % P256_p, P256_p)
             root == sqrt(y_squared, P256_p)
             y0 == root.val
             y == IF (flag = 2 /\ y0 % 2 = 1) \/ (flag = 3 /\ y0 % 2 = 0)
                  THEN Field_neg(y0, P256_p) ELSE y0
         IN IF root.exc # "None" THEN Raise(root.exc)
            ELSE IF y0 = None THEN Raise("ValueError")
            ELSE IF ~OnCurve(Point(x, y)) THEN Raise("ValueError")
            ELSE Ok(Point(x, y))

RECURSIVE Group_blocks(_)
Group_blocks(data) ==
    IF data = <<>> THEN Ok(<<>>)
    ELSE LET first == Group_block(Slice(data, 0, element_byte_length))
             rest == Group_blocks(Slice(data, element_byte_length, Len(data)))
         IN IF first.exc # "None" THEN Raise(first.exc)
            ELSE IF rest.exc # "None" THEN Raise(rest.exc)
            ELSE Ok(<<first.val>> \o rest.val)

Group_deserialize(data) ==
    IF Len(data) % element_byte_length # 0 THEN Raise("ValueError")
    ELSE Group_blocks(data)


----------------------------------------------------------------------------
(* hashlib.  A hash function is uninterpreted: the digest of an input is   *)
(* the term naming the function and the input, so two digests are equal    *)
(* exactly when function, input and range of bytes are.  A string fed to a *)
(* hash ("transcript string") is a sequence of items, each a literal byte  *)
(* or a run of bytes of a digest.                                          *)

\* digest_size of hashlib.sha256 and hashlib.sha3_256
DigestSize == 32

Byte(v) == [kind |-> "byte", value |-> v, input |-> <<>>, offset |-> 0, size |-> 1]

\* bytes offset .. offset+size-1 of the output of hash function kind on input
Run(kind, input, offset, size) ==
    IF size = 0 THEN <<>>
    ELSE <<[kind |-> kind, value |-> 0, input |-> input, offset |-> offset, size |-> size]>>

\* a byte string as a transcript string
Lit(bytes) == [i \in 1..Len(bytes) |-> Byte(bytes[i])]

RECURSIVE BLen(_)
\* len() of a transcript string
BLen(t) == IF t = <<>> THEN 0 ELSE Head(t).size + BLen(Tail(t))

RECURSIVE BTake(_, _)
\* t[:length]
BTake(t, length) ==
    IF length <= 0 \/ t = <<>> THEN <<>>
    ELSE IF Head(t).size <= length
         THEN <<Head(t)>> \o BTake(Tail(t), length - Head(t).size)
         ELSE <<[Head(t) EXCEPT !.size = length]>>

sha256(input) == Run("sha256", input, 0, DigestSize)
sha3_256(input) == Run("sha3_256", input, 0, DigestSize)
shake_128(input, length) == Run("shake_128", input, 0, length)

----------------------------------------------------------------------------
(* fiat_shamir/duplex_sponge.py                                            *)

\* Shake128DuplexSponge(initial_state) and Keccak256DuplexSponge(initial_state);
\* the hasher field of the SHAKE sponge is never read and is left out
Sponge(cls, initial_state) ==
    [cls |-> cls, state |-> initial_state, buffer |-> <<>>]

RECURSIVE KeccakLoop(_, _, _)
\* the while loop of Keccak256DuplexSponge.squeeze: h = sha3_256(h_input)
KeccakLoop(h_input, output, length) ==
    IF BLen(output) >= length THEN output
    ELSE KeccakLoop(sha3_256(h_input), output \o sha3_256(h_input), length)

absorb(sponge, data) ==
    IF sponge.cls = "Keccak256DuplexSponge"
    THEN [sponge EXCEPT !.buffer = @ \o data]
    ELSE [sponge EXCEPT !.state = @ \o data]

\* a squeeze that leaves the sponge as it was
squeeze_stateless(sponge, length) ==
    IF sponge.cls = "Keccak256DuplexSponge"
    THEN [sponge |-> sponge,
          output |-> BTake(KeccakLoop(sponge.state \o sponge.buffer, <<>>, length),
                           length)]
    ELSE [sponge |-> sponge, output |-> shake_128(sponge.state, length)]

\* the sponge after squeeze(length), and the bytes returned
squeeze(sponge, length) ==
    IF sponge.cls = "Keccak256DuplexSponge"
    THEN LET output == BTake(KeccakLoop(sponge.state \o sponge.buffer, <<>>, length),
                             length)
         IN [sponge |-> [sponge EXCEPT
                           !.state = sha3_256(sponge.state \o sponge.buffer \o output),
                           !.buffer = <<>>],
             output |-> output]
    ELSE LET output == shake_128(sponge.state, length)
         IN [sponge |-> [sponge EXCEPT !.state = @ \o output],
             output |-> output]

\* a clone() that copies nothing: the new sponge of its first line
clone_fresh(sponge) ==
    IF sponge.cls = "Keccak256DuplexSponge"
    THEN [cls |-> "Keccak256DuplexSponge", state |-> <<>>, buffer |-> <<>>]
    ELSE [cls |-> "DuplexSpongeInterface", state |-> <<>>, buffer |-> <<>>]

\* clone(): Keccak256DuplexSponge overrides it; the clone of a
\* Shake128DuplexSponge is a DuplexSpongeInterface with the same state
clone(sponge) ==
    IF sponge.cls = "Keccak256DuplexSponge"
    THEN [cls |-> "Keccak256DuplexSponge", state |-> sponge.state,
          buffer |-> sponge.buffer]
    ELSE [cls |-> "DuplexSpongeInterface", state |-> sponge.state,
          buffer |-> <<>>]

----------------------------------------------------------------------------
(* fiat_shamir/codec.py                                                    *)

\* the 16 extra bytes of verifier_challenge
OverSqueeze == 16

\* the octets of a length prefix of Codec.init (scaled down from 4, so that
\* a byte string can be too long for its prefix)
LengthPrefix == 1

\* I2OSP(v, length), length >= 1
I2OSP(v, length) ==
    IF v < 0 \/ (v \div (256 ^ (length - 1))) >= 256 THEN Raise("ValueError")
    ELSE Ok(to_bytes_big(v, length))

OS2IP(octets) == from_bytes_big(octets)

\* an initial state that leaves the session identifier out
Codec_init_unbound(session_id, instance_label) ==
    LET l2 == I2OSP(BLen(instance_label), LengthPrefix)
    IN IF l2.exc # "None" THEN Raise(l2.exc)
       ELSE Ok(Lit(l2.val) \o instance_label)

\* a Codec.init that joins session_id and instance_label with no length in
\* front of either
Codec_init_unframed(session_id, instance_label) ==
    Ok(Lit(session_id) \o instance_label)

\* Codec.init(session_id, instance_label); session_id is a byte string,
\* instance_label a transcript string
Codec_init(session_id, instance_label) ==
    LET l1 == I2OSP(Len(session_id), LengthPrefix)
        l2 == I2OSP(BLen(instance_label), LengthPrefix)
    IN IF l1.exc # "None" THEN Raise(l1.exc)
       ELSE IF l2.exc # "None" THEN Raise(l2.exc)
       ELSE Ok(Lit(l1.val) \o Lit(session_id) \o Lit(l2.val) \o instance_label)

\* a prover_message that absorbs nothing
prover_message_unabsorbed(hash_state, elements) == hash_state

\* ByteSchnorrCodec.prover_message(hash_state, elements)
prover_message(hash_state, elements) ==
    absorb(hash_state, Lit(Group_serialize(elements)))

\* P256AndCodec.prover_message(hash_state, elements)
And_prover_message(hash_state, elements) ==
    prover_message(hash_state, Join(elements))

\* a verifier_challenge that returns the bytes squeezed as an integer, not
\* reduced modulo the order
verifier_challenge_unreduced(hash_state, octets) ==
    LET sq == squeeze(hash_state, scalar_byte_length + OverSqueeze)
    IN [hash_state |-> sq.sponge,
        uniform_bytes |-> sq.output,
        challenge |-> OS2IP(octets)]

\* ByteSchnorrCodec.verifier_challenge(hash_state).  uniform_bytes is the
\* squeezed run of digest bytes; octets is the byte string the hash function
\* yields for it.
verifier_challenge(hash_state, octets) ==
    LET sq == squeeze(hash_state, scalar_byte_length + OverSqueeze)
    IN [hash_state |-> sq.sponge,
        uniform_bytes |-> sq.output,
        challenge |-> OS2IP(octets) % order]

----------------------------------------------------------------------------
(* test_drng.py: TestDRNG.  The 32-bit state is the pair of its 16-bit     *)
(* halves <<high, low>>.                                                   *)

TestDRNG(seed) == <<seed \div 65536, seed % 65536>>

\* _next(): state = (1664525 * state + 1013904223) & 0xFFFFFFFF,
\* 1664525 = 25 * 2^16 + 26125, 1013904223 = 15470 * 2^16 + 62303
DRNG_next(state) ==
    LET low == 26125 * state[2] + 62303
        high == 25 * state[2] + ((26125 * state[1]) % 65536) + (low \div 65536) + 15470
    IN <<high % 65536, low % 65536>>

\* randint(a, b): ValueError with the state as it was when a > b, else
\* a + (_next() % range_size) and the state _next() left;
\* state % r = ((high % r) * (2^16 % r) + low % r) % r
DRNG_randint(state, a, b) ==
    IF a > b THEN [exc |-> "ValueError", val |-> None, rng |-> state]
    ELSE LET range_size == b - a + 1
             next == DRNG_next(state)
         IN [exc |-> "None",
             val |-> a + (((next[1] % range_size) * (65536 % range_size)
                              + (next[2] % range_size)) % range_size),
             rng |-> next]

RECURSIVE DRNG_randbytes(_, _)
\* randbytes(n): n times bytes([_next() & 0xFF]), and the state left
DRNG_randbytes(state, n) ==
    IF n <= 0 THEN [val |-> <<>>, rng |-> state]
    ELSE LET next == DRNG_next(state)
             rest == DRNG_randbytes(next, n - 1)
         IN [val |-> <<next[2] % 256>> \o rest.val, rng |-> rest.rng]

\* FiniteField.random(rng): rng.randint(0, p - 1) as an element of GF(m)
Field_random(rng, m) ==
    LET drawn == DRNG_randint(rng, 0, m - 1)
    IN [exc |-> drawn.exc, rng |-> drawn.rng,
        value |-> IF drawn.exc = "None" THEN drawn.val % m ELSE None]

\* a draw that mixes in how many digests the process has asked for so far
Scalar_random_global(rng) ==
    LET drawn == DRNG_randint(rng, 1, order - 1)
    IN [exc |-> drawn.exc, rng |-> drawn.rng,
        value |-> IF drawn.exc = "None"
                  THEN (drawn.val + Cardinality(DOMAIN xof)) % order ELSE None]

\* ScalarField.random(rng): rng.randint(1, order - 1) as a scalar, and the
\* state after the draw
Scalar_random(rng) ==
    LET drawn == DRNG_randint(rng, 1, order - 1)
    IN [exc |-> drawn.exc, rng |-> drawn.rng,
        value |-> IF drawn.exc = "None" THEN drawn.val % order ELSE None]


RECURSIVE random_point(_)
\* EllipticCurve.random_point(rng): draw x until x^3 + ax + b is a square,
\* take its root and negate it when rng.randint(0, 1) is 1; sqrt returns
\* None for zero, which cannot be negated and otherwise becomes the y
random_point(rng) ==
    LET drawn == Field_random(rng, P256_p)
        x == drawn.value
        y_squared == Field_add(
                         Field_add(Field_mul(Field_mul(x, x, P256_p), x, P256_p),
                                   Field_mul(P256_a % P256_p, x, P256_p), P256_p),
                         P256_b % P256_p, P256_p)
        root == sqrt(y_squared, P256_p)
        coin == DRNG_randint(drawn.rng, 0, 1)
    IN IF drawn.exc # "None" THEN [exc |-> drawn.exc, val |-> <<>>, rng |-> drawn.rng]
       ELSE IF ~is_square(y_squared, P256_p) THEN random_point(drawn.rng)
       ELSE IF root.exc # "None" THEN [exc |-> root.exc, val |-> <<>>, rng |-> drawn.rng]
       ELSE IF coin.val = 1 /\ root.val = None
       THEN [exc |-> "TypeError", val |-> <<>>, rng |-> coin.rng]
       ELSE [exc |-> "None",
             val |-> Point(x, IF coin.val = 1 THEN Field_neg(root.val, P256_p)
                              ELSE root.val),
             rng |-> coin.rng]


----------------------------------------------------------------------------
(* sigma_protocols/sigma_protocols.py: LinearMap                           *)

\* LinearMap(group)
LinearMap_new ==
    [linear_combinations |-> <<>>, group_elements |-> <<>>,
     num_scalars |-> 0, num_elements |-> 0, num_constraints |-> 0]

RECURSIVE LinearCombination_eval_affine(_, _, _, _, _)
\* an inner loop whose terms are element * (scalar + 1)
LinearCombination_eval_affine(lm, scalars, scalar_indices, element_indices, result) ==
    IF scalar_indices = <<>> \/ element_indices = <<>> THEN Ok(result)
    ELSE LET scalar_idx == Head(scalar_indices)
             element_idx == Head(element_indices)
         IN IF scalar_idx >= Len(scalars) THEN Raise("IndexError")
            ELSE IF element_idx >= Len(lm.group_elements) THEN Raise("IndexError")
            ELSE LinearCombination_eval_affine(
                     lm, scalars, Tail(scalar_indices), Tail(element_indices),
                     Point_add(result,
                               Point_mul(lm.group_elements[element_idx + 1],
                                         scalars[scalar_idx + 1] + 1)))

RECURSIVE LinearCombination_eval(_, _, _, _, _)
\* the inner loop of LinearMap.__call__ over zip(scalar_indices, element_indices);
\* indices count from 0
LinearCombination_eval(lm, scalars, scalar_indices, element_indices, result) ==
    IF scalar_indices = <<>> \/ element_indices = <<>> THEN Ok(result)
    ELSE LET scalar_idx == Head(scalar_indices)
             element_idx == Head(element_indices)
         IN IF scalar_idx >= Len(scalars) THEN Raise("IndexError")
            ELSE IF element_idx >= Len(lm.group_elements) THEN Raise("IndexError")
            ELSE LinearCombination_eval(
                     lm, scalars, Tail(scalar_indices), Tail(element_indices),
                     Point_add(result,
                               Point_mul(lm.group_elements[element_idx + 1],
                                         scalars[scalar_idx + 1])))

RECURSIVE LinearMap_loop(_, _, _)
LinearMap_loop(lm, scalars, lcs) ==
    IF lcs = <<>> THEN Ok(<<>>)
    ELSE LET first == LinearCombination_eval(lm, scalars, Head(lcs).scalar_indices,
                                             Head(lcs).element_indices, identity)
             rest == LinearMap_loop(lm, scalars, Tail(lcs))
         IN IF first.exc # "None" THEN Raise(first.exc)
            ELSE IF rest.exc # "None" THEN Raise(rest.exc)
            ELSE Ok(<<first.val>> \o rest.val)

\* LinearMap.__call__(scalars)
LinearMap_call(lm, scalars) == LinearMap_loop(lm, scalars, lm.linear_combinations)

\* LinearMap.add_constraint
add_constraint(lm, scalar_indices, element_indices) ==
    [lm EXCEPT
       !.linear_combinations =
           Append(@, [scalar_indices |-> scalar_indices,
                      element_indices |-> element_indices]),
       !.num_constraints = @ + 1]

\* LinearMap.set_elements
LinearMap_set_elements(lm, elements) ==
    [lm EXCEPT !.group_elements = elements, !.num_elements = Len(elements)]

----------------------------------------------------------------------------
(* sigma_protocols/sigma_protocols.py: LinearRelation                      *)

\* LinearRelation(group).  element_values is the dict, a function on the
\* variable ids that have a value.
LinearRelation ==
    [cls |-> "LinearRelation",
     linear_map |-> LinearMap_new,
     scalar_vars |-> <<>>, element_vars |-> <<>>,
     element_values |-> <<>>, equations |-> <<>>,
     next_scalar_id |-> 0, next_element_id |-> 0]

RECURSIVE allocate_scalars(_, _)
allocate_scalars(rel, count) ==
    IF count = 0
    THEN [rel EXCEPT !.linear_map.num_scalars = Len(rel.scalar_vars)]
    ELSE allocate_scalars(
             [rel EXCEPT !.scalar_vars = Append(@, rel.next_scalar_id),
                         !.next_scalar_id = @ + 1],
             count - 1)

RECURSIVE allocate_elements(_, _)
allocate_elements(rel, count) ==
    IF count = 0 THEN rel
    ELSE allocate_elements(
             [rel EXCEPT !.element_vars = Append(@, rel.next_element_id),
                         !.next_element_id = @ + 1],
             count - 1)

RECURSIVE DictUpdate(_, _)
\* for var_id, value in assignments: element_values[var_id] = value
DictUpdate(values, assignments) ==
    IF assignments = <<>> THEN values
    ELSE LET var_id == Head(assignments)[1]
             value == Head(assignments)[2]
         IN DictUpdate([k \in DOMAIN values \cup {var_id} |->
                           IF k = var_id THEN value ELSE values[k]],
                       Tail(assignments))

RECURSIVE AssignedValues(_, _)
\* the values of the variables of element_vars that have one, in order
AssignedValues(element_vars, values) ==
    IF element_vars = <<>> THEN <<>>
    ELSE (IF Head(element_vars) \in DOMAIN values
          THEN <<values[Head(element_vars)]>> ELSE <<>>)
           \o AssignedValues(Tail(element_vars), values)

\* LinearRelation.set_elements(assignments)
set_elements(rel, assignments) ==
    LET values == DictUpdate(rel.element_values, assignments)
    IN [rel EXCEPT
          !.element_values = values,
          !.linear_map = LinearMap_set_elements(
                             @, AssignedValues(rel.element_vars, values))]

\* list.index(v): the 0-based position of the first v, None when absent
index(list, v) ==
    IF \E i \in 1..Len(list) : list[i] = v
    THEN (CHOOSE i \in 1..Len(list) :
             list[i] = v /\ \A j \in 1..(i - 1) : list[j] # v) - 1
    ELSE None

\* LinearRelation.append_equation(lhs_element, rhs_terms): the relation it
\* leaves, and the exception raised (the equation is recorded before the
\* terms are resolved)
append_equation(rel, lhs_element, rhs_terms) ==
    LET recorded == [rel EXCEPT !.equations = Append(@, <<lhs_element, rhs_terms>>)]
        scalar_indices == [i \in 1..Len(rhs_terms) |->
                              index(rel.scalar_vars, rhs_terms[i][1])]
        element_indices == [i \in 1..Len(rhs_terms) |->
                               index(rel.element_vars, rhs_terms[i][2])]
    IN IF \E i \in 1..Len(rhs_terms) :
              scalar_indices[i] = None \/ element_indices[i] = None
       THEN [exc |-> "ValueError", rel |-> recorded]
       ELSE [exc |-> "None",
             rel |-> [recorded EXCEPT
                        !.linear_map = add_constraint(@, scalar_indices,
                                                      element_indices)]]

\* instance.image: the property of a LinearRelation, the attribute of an
\* Instance
image(rel) ==
    IF rel.cls = "Instance" THEN Ok(rel.image)
    ELSE IF \E k \in 1..Len(rel.equations) :
           rel.equations[k][1] \notin DOMAIN rel.element_values
    THEN Raise("KeyError")
    ELSE Ok([k \in 1..Len(rel.equations) |->
                rel.element_values[rel.equations[k][1]]])

RECURSIVE SerializeEach(_)
\* for element in elements: h.update(group.serialize([element]))
SerializeEach(elements) ==
    IF elements = <<>> THEN <<>>
    ELSE Group_serialize(<<Head(elements)>>) \o SerializeEach(Tail(elements))

\* a get_label() that leaves the image out of the digest
LinearRelation_get_label_imageless(rel) ==
    LET img == image(rel)
    IN IF img.exc # "None" THEN Raise(img.exc)
       ELSE Ok(sha256(Lit(
                to_bytes_little(rel.linear_map.num_scalars, 4)
                  \o to_bytes_little(rel.linear_map.num_elements, 4)
                  \o to_bytes_little(rel.linear_map.num_constraints, 4)
                  \o SerializeEach(rel.linear_map.group_elements))))

\* LinearRelation.get_label()
LinearRelation_get_label(rel) ==
    LET img == image(rel)
    IN IF img.exc # "None" THEN Raise(img.exc)
       ELSE Ok(sha256(Lit(
                to_bytes_little(rel.linear_map.num_scalars, 4)
                  \o to_bytes_little(rel.linear_map.num_elements, 4)
                  \o to_bytes_little(rel.linear_map.num_constraints, 4)
                  \o SerializeEach(rel.linear_map.group_elements)
                  \o SerializeEach(img.val))))


\* Instance(group, linear_map, image)
Instance(linear_map, img) ==
    [cls |-> "Instance", linear_map |-> linear_map, image |-> img]

\* Instance.get_label()
Instance_get_label(instance) ==
    sha256(Lit(
        to_bytes_little(instance.linear_map.num_scalars, 4)
          \o to_bytes_little(instance.linear_map.num_constraints, 4)
          \o SerializeEach(instance.image)))

----------------------------------------------------------------------------
(* sigma_protocols/sigma_protocols.py: SchnorrProof                        *)

RECURSIVE DrawScalars(_, _)
\* [Domain.random(rng) for _ in range(count)]: the draws and the rng left
DrawScalars(rng, count) ==
    IF count = 0 THEN [rng |-> rng, values |-> <<>>]
    ELSE LET first == Scalar_random(rng)
             rest == DrawScalars(first.rng, count - 1)
         IN [rng |-> rest.rng, values |-> <<first.value>> \o rest.values]

\* a prover_commit whose nonces come from one generator all sessions share,
\* the one the first session was handed, as it has been left
prover_commit_shared(instance, witness, rng) ==
    LET shared == IF rngs["first"] # <<>> THEN rngs["first"] ELSE rng
        drawn == DrawScalars(shared, instance.linear_map.num_scalars)
        commitment == LinearMap_call(instance.linear_map, drawn.values)
    IN [exc |-> commitment.exc,
        prover_state |-> [witness |-> witness, nonces |-> drawn.values],
        commitment |-> commitment.val,
        rng |-> drawn.rng]

\* a prover_commit that draws one nonce and uses it for every scalar
prover_commit_one_nonce(instance, witness, rng) ==
    LET drawn == DrawScalars(rng, IF instance.linear_map.num_scalars = 0 THEN 0 ELSE 1)
        nonces == [i \in 1..instance.linear_map.num_scalars |-> drawn.values[1]]
        commitment == LinearMap_call(instance.linear_map, nonces)
    IN [exc |-> commitment.exc,
        prover_state |-> [witness |-> witness, nonces |-> nonces],
        commitment |-> commitment.val,
        rng |-> drawn.rng]

\* SchnorrProof.prover_commit(witness, rng)
prover_commit(instance, witness, rng) ==
    LET drawn == DrawScalars(rng, instance.linear_map.num_scalars)
        commitment == LinearMap_call(instance.linear_map, drawn.values)
    IN [exc |-> commitment.exc,
        prover_state |-> [witness |-> witness, nonces |-> drawn.values],
        commitment |-> commitment.val,
        rng |-> drawn.rng]

\* a response that leaves the challenge out: nonces[i] + witness[i]
prover_response_unchallenged(instance, prover_state, challenge) ==
    IF Len(prover_state.witness) < instance.linear_map.num_scalars
    THEN Raise("IndexError")
    ELSE Ok([i \in 1..instance.linear_map.num_scalars |->
                Field_add(prover_state.nonces[i], prover_state.witness[i], order)])

\* SchnorrProof.prover_response(prover_state, challenge)
prover_response(instance, prover_state, challenge) ==
    IF Len(prover_state.witness) < instance.linear_map.num_scalars
    THEN Raise("IndexError")
    ELSE Ok([i \in 1..instance.linear_map.num_scalars |->
                Field_add(prover_state.nonces[i],
                          Field_mul(prover_state.witness[i], challenge, order),
                          order)])

\* a verifier that leaves the challenge out: phi(z)[i] = T[i] + x[i]
verifier_unchallenged(instance, commitment, challenge, response) ==
    IF Len(commitment) # instance.linear_map.num_constraints THEN Raise("AssertionError")
    ELSE IF Len(response) # instance.linear_map.num_scalars THEN Raise("AssertionError")
    ELSE LET expected == LinearMap_call(instance.linear_map, response)
             img == image(instance)
         IN IF expected.exc # "None" THEN Raise(expected.exc)
            ELSE IF instance.linear_map.num_constraints = 0 THEN Ok(TRUE)
            ELSE IF img.exc # "None" THEN Raise(img.exc)
            ELSE LET got == [i \in 1..instance.linear_map.num_constraints |->
                                Point_add(commitment[i], img.val[i])]
                 IN IF got = expected.val THEN Ok(TRUE)
                    ELSE Raise("AssertionError")

\* a verifier with the sign of the challenge term wrong:
\* phi(z)[i] = T[i] - x[i] * e
verifier_subtracting(instance, commitment, challenge, response) ==
    IF Len(commitment) # instance.linear_map.num_constraints THEN Raise("AssertionError")
    ELSE IF Len(response) # instance.linear_map.num_scalars THEN Raise("AssertionError")
    ELSE LET expected == LinearMap_call(instance.linear_map, response)
             img == image(instance)
         IN IF expected.exc # "None" THEN Raise(expected.exc)
            ELSE IF instance.linear_map.num_constraints = 0 THEN Ok(TRUE)
            ELSE IF img.exc # "None" THEN Raise(img.exc)
            ELSE LET got == [i \in 1..instance.linear_map.num_constraints |->
                                Point_add(commitment[i],
                                          Point_neg(Point_mul(img.val[i], challenge)))]
                 IN IF got = expected.val THEN Ok(TRUE)
                    ELSE Raise("AssertionError")

\* SchnorrProof.verifier(commitment, challenge, response)
verifier(instance, commitment, challenge, response) ==
    IF Len(commitment) # instance.linear_map.num_constraints THEN Raise("AssertionError")
    ELSE IF Len(response) # instance.linear_map.num_scalars THEN Raise("AssertionError")
    ELSE LET expected == LinearMap_call(instance.linear_map, response)
             img == image(instance)
         IN IF expected.exc # "None" THEN Raise(expected.exc)
            ELSE IF instance.linear_map.num_constraints = 0 THEN Ok(TRUE)
            ELSE IF img.exc # "None" THEN Raise(img.exc)
            ELSE LET got == [i \in 1..instance.linear_map.num_constraints |->
                                Point_add(commitment[i],
                                          Point_mul(img.val[i], challenge))]
                 IN IF got = expected.val THEN Ok(TRUE)
                    ELSE Raise("AssertionError")

serialize_commitment(commitment) == Group_serialize(commitment)
serialize_response(response) == Scalar_serialize(response)
deserialize_commitment(data) == Group_deserialize(data)
deserialize_response(data) == Scalar_deserialize(data)

\* SchnorrProof(instance)
SchnorrProof(instance) == [cls |-> "SchnorrProof", instance |-> instance]

\* SchnorrProof.get_instance_label(): self.instance.get_label()
get_instance_label(protocol) ==
    IF protocol.instance.cls = "Instance"
    THEN Ok(Instance_get_label(protocol.instance))
    ELSE LinearRelation_get_label(protocol.instance)

\* SchnorrProof.get_protocol_id(): b'ietf sigma proof linear relation' + b'\0' * 31
Schnorr_get_protocol_id ==
    <<105, 101, 116, 102, 32, 115, 105, 103, 109, 97, 32, 112,
      114, 111, 111, 102, 32, 108, 105, 110, 101, 97, 114, 32,
      114, 101, 108, 97, 116, 105, 111, 110>>
        \o Repeat(0, 31)

----------------------------------------------------------------------------
(* sigma_protocols/composition.py: AndProof, OrProof                       *)

\* AndProof(instances), OrProof(instances): one SchnorrProof per instance
AndProof(insts) ==
    [cls |-> "AndProof",
     protocols |-> [i \in 1..Len(insts) |-> SchnorrProof(insts[i])]]

OrProof(insts) ==
    [cls |-> "OrProof",
     protocols |-> [i \in 1..Len(insts) |-> SchnorrProof(insts[i])]]

\* the length of zip(a, b) and of zip(a, b, c)
Zip2(a, b) == IF Len(a) < Len(b) THEN Len(a) ELSE Len(b)
Zip3(a, b, c) == Zip2(a, SubSeq(b, 1, Zip2(b, c)))

RECURSIVE And_commit_loop(_, _, _, _, _)
\* the loop of AndProof.prover_commit from pair i on; rng is shared
And_commit_loop(and, wits, rng, i, acc) ==
    IF i > Zip2(and.protocols, wits) THEN [acc EXCEPT !.rng = rng]
    ELSE LET sub == prover_commit(and.protocols[i].instance, wits[i], rng)
         IN IF sub.exc # "None" THEN [acc EXCEPT !.exc = sub.exc, !.rng = sub.rng]
            ELSE And_commit_loop(and, wits, sub.rng, i + 1,
                     [acc EXCEPT
                        !.prover_states = Append(@, sub.prover_state),
                        !.commitments = Append(@, sub.commitment)])

\* AndProof.prover_commit(witnesses, rng)
And_prover_commit(and, wits, rng) ==
    And_commit_loop(and, wits, rng, 1,
        [exc |-> "None", prover_states |-> <<>>, commitments |-> <<>>,
         rng |-> rng])

\* an AndProof.prover_response that answers the first prover state only
And_prover_response_first(and, prover_states, challenge) ==
    LET count == IF Zip2(prover_states, and.protocols) = 0 THEN 0 ELSE 1
        subs == [i \in 1..count |->
                    prover_response(and.protocols[i].instance,
                                    prover_states[i], challenge)]
    IN IF \E i \in 1..count : subs[i].exc # "None"
       THEN Raise(subs[CHOOSE i \in 1..count : subs[i].exc # "None"].exc)
       ELSE Ok([i \in 1..count |-> subs[i].val])

\* AndProof.prover_response(prover_states, challenge)
And_prover_response(and, prover_states, challenge) ==
    LET count == Zip2(prover_states, and.protocols)
        subs == [i \in 1..count |->
                    prover_response(and.protocols[i].instance,
                                    prover_states[i], challenge)]
    IN IF \E i \in 1..count : subs[i].exc # "None"
       THEN LET i == CHOOSE j \in 1..count :
                         /\ subs[j].exc # "None"
                         /\ \A l \in 1..(j - 1) : subs[l].exc = "None"
            IN Raise(subs[i].exc)
       ELSE Ok([i \in 1..count |-> subs[i].val])

\* AndProof.verifier(commitments, challenge, responses): a sub-verifier
\* returns True or raises, and what it raises is raised
And_verifier(and, commitments, challenge, responses) ==
    IF Len(commitments) # Len(responses) THEN Raise("AssertionError")
    ELSE LET count == Zip3(and.protocols, commitments, responses)
             subs == [i \in 1..count |->
                         verifier(and.protocols[i].instance, commitments[i],
                                  challenge, responses[i])]
         IN IF \E i \in 1..count : subs[i].exc # "None"
            THEN LET i == CHOOSE j \in 1..count :
                              /\ subs[j].exc # "None"
                              /\ \A l \in 1..(j - 1) : subs[l].exc = "None"
                 IN Raise(subs[i].exc)
            ELSE Ok(TRUE)

\* OrProof.verifier(commitments, challenge, responses): what a sub-verifier
\* raises is caught
Or_verifier(or, commitments, challenge, responses) ==
    LET count == Zip3(or.protocols, commitments, responses)
        valid == {i \in 1..count :
                     verifier(or.protocols[i].instance, commitments[i],
                              challenge, responses[i]).exc = "None"}
    IN Ok(Cardinality(valid) >= 1)

\* an entry of a Python list that holds None or a value
NoneCell == [is_none |-> TRUE]
Cell(v) == [is_none |-> FALSE, value |-> v]

\* rng=None
NoRng == <<>>

\* SchnorrProof.simulate_response(rng): Domain.random(rng) calls rng.randint,
\* which None does not have
simulate_response(instance, rng) ==
    IF instance.linear_map.num_scalars = 0
    THEN [exc |-> "None", val |-> <<>>, rng |-> rng]
    ELSE IF rng = NoRng
    THEN [exc |-> "AttributeError", val |-> <<>>, rng |-> rng]
    ELSE LET drawn == DrawScalars(rng, instance.linear_map.num_scalars)
         IN [exc |-> "None", val |-> drawn.values, rng |-> drawn.rng]

RECURSIVE Or_commit_loop(_, _, _, _, _, _)
\* the loop of OrProof.prover_commit from protocol i on (witness_index counts
\* from 0); rng is shared, and the simulated response is dropped
Or_commit_loop(or, witness_index, witness, rng, i, acc) ==
    IF i > Len(or.protocols) THEN [acc EXCEPT !.rng = rng]
    ELSE IF i - 1 = witness_index
    THEN LET sub == prover_commit(or.protocols[i].instance, witness, rng)
         IN IF sub.exc # "None" THEN [acc EXCEPT !.exc = sub.exc, !.rng = sub.rng]
            ELSE Or_commit_loop(or, witness_index, witness, sub.rng, i + 1,
                     [acc EXCEPT
                        !.prover_states = Append(@, Cell(sub.prover_state)),
                        !.commitments = Append(@, Cell(sub.commitment))])
    ELSE LET sim == simulate_response(or.protocols[i].instance, rng)
         IN IF sim.exc # "None" THEN [acc EXCEPT !.exc = sim.exc, !.rng = sim.rng]
            ELSE Or_commit_loop(or, witness_index, witness, sim.rng, i + 1,
                     [acc EXCEPT
                        !.prover_states = Append(@, NoneCell),
                        !.commitments = Append(@, NoneCell)])

\* OrProof.prover_commit(witness_index, witness, rng)
Or_prover_commit(or, witness_index, witness, rng) ==
    Or_commit_loop(or, witness_index, witness, rng, 1,
        [exc |-> "None", prover_states |-> <<>>, commitments |-> <<>>,
         witness_index |-> witness_index, rng |-> rng])

\* the response of branch i in OrProof.prover_response
Or_branch_response(or, prover_state, challenge, i) ==
    IF i - 1 = prover_state.witness_index
    THEN IF prover_state.prover_states[i].is_none
         THEN Raise("TypeError")
         ELSE prover_response(or.protocols[i].instance,
                              prover_state.prover_states[i].value, challenge)
    ELSE LET sim == simulate_response(or.protocols[i].instance, NoRng)
         IN IF sim.exc # "None" THEN Raise(sim.exc) ELSE Ok(sim.val)

\* OrProof.prover_response(prover_state, challenge)
Or_prover_response(or, prover_state, challenge) ==
    LET count == Len(or.protocols)
        subs == [i \in 1..count |->
                    Or_branch_response(or, prover_state, challenge, i)]
    IN IF \E i \in 1..count : subs[i].exc # "None"
       THEN LET i == CHOOSE j \in 1..count :
                         /\ subs[j].exc # "None"
                         /\ \A l \in 1..(j - 1) : subs[l].exc = "None"
            IN Raise(subs[i].exc)
       ELSE Ok([i \in 1..count |-> subs[i].val])

\* AndProof.serialize_commitment(commitments)
And_serialize_commitment(and, commitments) ==
    Join([i \in 1..Zip2(and.protocols, commitments) |->
             serialize_commitment(commitments[i])])

\* AndProof.serialize_response(responses)
And_serialize_response(and, responses) ==
    Join([i \in 1..Zip2(and.protocols, responses) |->
             serialize_response(responses[i])])

RECURSIVE And_deserialize_commitment_loop(_, _, _, _, _)
\* the loop of AndProof.deserialize_commitment from protocol i on
And_deserialize_commitment_loop(and, data, i, offset, commitments) ==
    IF i > Len(and.protocols) THEN Ok(commitments)
    ELSE LET dummy_commitment ==
                 Repeat(identity, and.protocols[i].instance.linear_map.num_constraints)
             commit_len == Len(serialize_commitment(dummy_commitment))
             commitment ==
                 deserialize_commitment(Slice(data, offset, offset + commit_len))
         IN IF commitment.exc # "None" THEN Raise(commitment.exc)
            ELSE And_deserialize_commitment_loop(
                     and, data, i + 1, offset + commit_len,
                     Append(commitments, commitment.val))

\* AndProof.deserialize_commitment(data)
And_deserialize_commitment(and, data) ==
    And_deserialize_commitment_loop(and, data, 1, 0, <<>>)

RECURSIVE And_deserialize_response_loop(_, _, _, _, _)
\* the loop of AndProof.deserialize_response from protocol i on
And_deserialize_response_loop(and, data, i, offset, responses) ==
    IF i > Len(and.protocols) THEN Ok(responses)
    ELSE LET dummy_response ==
                 Repeat(0, and.protocols[i].instance.linear_map.num_scalars)
             response_len == Len(serialize_response(dummy_response))
             response ==
                 deserialize_response(Slice(data, offset, offset + response_len))
         IN IF response.exc # "None" THEN Raise(response.exc)
            ELSE And_deserialize_response_loop(
                     and, data, i + 1, offset + response_len,
                     Append(responses, response.val))

\* AndProof.deserialize_response(data)
And_deserialize_response(and, data) ==
    And_deserialize_response_loop(and, data, 1, 0, <<>>)

\* b"AND_PROOF"
AND_PROOF == <<65, 78, 68, 95, 80, 82, 79, 79, 70>>

\* AndProof.get_instance_label(), which get_label() returns
And_get_instance_label(and) ==
    LET labels == [i \in 1..Len(and.protocols) |->
                      get_instance_label(and.protocols[i])]
    IN IF \E i \in 1..Len(labels) : labels[i].exc # "None"
       THEN Raise(labels[CHOOSE i \in 1..Len(labels) : labels[i].exc # "None"].exc)
       ELSE Ok(sha256(Lit(AND_PROOF)
                        \o Join([i \in 1..Len(labels) |-> labels[i].val])))

\* AndProof.get_protocol_id(): b'ietf sigma proof and composition' + b'\0' * 32
And_get_protocol_id ==
    <<105, 101, 116, 102, 32, 115, 105, 103, 109, 97, 32, 112,
      114, 111, 111, 102, 32, 97, 110, 100, 32, 99, 111, 109,
      112, 111, 115, 105, 116, 105, 111, 110>>
        \o Repeat(0, 32)

\* OrProof.get_protocol_id(): b'ietf sigma proof or composition' + b'\0' * 33
Or_get_protocol_id ==
    <<105, 101, 116, 102, 32, 115, 105, 103, 109, 97, 32, 112,
      114, 111, 111, 102, 32, 111, 114, 32, 99, 111, 109, 112,
      111, 115, 105, 116, 105, 111, 110>>
        \o Repeat(0, 33)

\* cls.get_protocol_id()
get_protocol_id(cls) ==
    IF cls = "SchnorrProof" THEN Schnorr_get_protocol_id
    ELSE IF cls = "AndProof" THEN And_get_protocol_id
    ELSE Or_get_protocol_id

----------------------------------------------------------------------------
(* fiat_shamir/transform.py                                                *)

\* CIPHERSUITE[suite] of sigma_protocols/ciphersuite.py: the FiatShamirNIZK
CIPHERSUITE(suite) ==
    [Protocol |-> "SchnorrProof",
     Codec |-> "P256Codec",
     Sponge |-> IF suite = "P256_SHAKE128" THEN "Shake128DuplexSponge"
                ELSE "Keccak256DuplexSponge"]

Suites == {"P256_SHAKE128", "P256_KECCAK256"}

\* instance.get_label() of FiatShamirNIZK.__call__, by the class of instance
\* a Python list has no get_label
get_label(instance) ==
    IF instance.cls = "LinearRelation" THEN LinearRelation_get_label(instance)
    ELSE IF instance.cls = "Instance" THEN Ok(Instance_get_label(instance))
    ELSE IF instance.cls = "AndProof" THEN And_get_instance_label(instance)
    ELSE Raise("AttributeError")

\* self.Protocol(instance)
\* AndProof(instance) iterates over instance: a list is iterable, a
\* LinearRelation and an AndProof are not
Protocol_new(cls, instance) ==
    IF cls = "SchnorrProof" THEN Ok(SchnorrProof(instance))
    ELSE IF instance.cls = "list" THEN Ok(AndProof(instance.items))
    ELSE Raise("TypeError")

\* NIAndProof(): FiatShamirNIZK(AndProof, P256AndCodec, Keccak256DuplexSponge)
NIAndProof ==
    [Protocol |-> "AndProof", Codec |-> "P256AndCodec",
     Sponge |-> "Keccak256DuplexSponge"]

\* NonInteractiveProof(protocol, codec, hash_state), or what
\* self.Protocol(instance) raised
NonInteractiveProof(nizk, protocol, hash_state) ==
    IF protocol.exc # "None" THEN Raise(protocol.exc)
    ELSE Ok([protocol |-> protocol.val, codec |-> nizk.Codec,
             hash_state |-> hash_state])

\* FiatShamirNIZK.__call__ from self.Sponge(initial_state) on
FiatShamirNIZK_sponge(nizk, instance, initial_state) ==
    IF initial_state.exc # "None" THEN Raise(initial_state.exc)
    ELSE NonInteractiveProof(nizk, Protocol_new(nizk.Protocol, instance),
                             Sponge(nizk.Sponge, initial_state.val))

\* FiatShamirNIZK.__call__ from self.Codec().init on, label what
\* instance.get_label() returned or raised
FiatShamirNIZK_init(nizk, session_id, instance, label) ==
    IF label.exc # "None" THEN Raise(label.exc)
    ELSE FiatShamirNIZK_sponge(nizk, instance, Codec_init(session_id, label.val))

\* FiatShamirNIZK.__call__(session_id, instance): the NonInteractiveProof
FiatShamirNIZK_call(nizk, session_id, instance) ==
    FiatShamirNIZK_init(nizk, session_id, instance, get_label(instance))

\* the outcome of NonInteractiveProof.prove or verify: what it returned or
\* raised, the hash_state and rng it leaves, and the bytes it squeezed
Outcome(exc, val, hash_state, rng, uniform_bytes, challenge) ==
    [exc |-> exc, val |-> val, hash_state |-> hash_state, rng |-> rng,
     uniform_bytes |-> uniform_bytes, challenge |-> challenge]

\* a serialization of the proof with the response first
prove_serialize_swapped(commit, vc, response) ==
    IF response.exc # "None"
    THEN Outcome(response.exc, <<>>, vc.hash_state, commit.rng,
                 vc.uniform_bytes, vc.challenge)
    ELSE Outcome("None",
                 serialize_response(response.val)
                   \o serialize_commitment(commit.commitment),
                 vc.hash_state, commit.rng, vc.uniform_bytes, vc.challenge)

\* prove from the serialization on; vc is what verifier_challenge left
prove_serialize(commit, vc, response) ==
    IF response.exc # "None"
    THEN Outcome(response.exc, <<>>, vc.hash_state, commit.rng,
                 vc.uniform_bytes, vc.challenge)
    ELSE Outcome("None",
                 serialize_commitment(commit.commitment)
                   \o serialize_response(response.val),
                 vc.hash_state, commit.rng, vc.uniform_bytes, vc.challenge)

\* prove from prover_response on
prove_respond(np, commit, vc) ==
    prove_serialize(commit, vc,
        prover_response(np.protocol.instance, commit.prover_state, vc.challenge))

\* prove from codec.prover_message on; commit is what prover_commit left
prove_challenge(np, commit, octets) ==
    IF commit.exc # "None"
    THEN Outcome(commit.exc, <<>>, np.hash_state, commit.rng, <<>>, None)
    ELSE prove_respond(np, commit,
             verifier_challenge(prover_message(np.hash_state, commit.commitment),
                                octets))

\* NonInteractiveProof.prove(witness, rng); octets is what the hash function
\* yields for the bytes squeezed
prove(np, witness, rng, octets) ==
    prove_challenge(np, prover_commit(np.protocol.instance, witness, rng), octets)

\* len(serialize_commitment([identity] * num_constraints))
commitment_size(np) ==
    Len(serialize_commitment(
            Repeat(identity, np.protocol.instance.linear_map.num_constraints)))

\* verify from protocol.verifier on; what the verifier raises is raised
verify_verdict(vc, verdict) ==
    Outcome(verdict.exc, verdict.exc = "None", vc.hash_state, <<>>,
            vc.uniform_bytes, vc.challenge)

\* verify from verifier_challenge on
verify_challenge(np, commitment, response, vc) ==
    verify_verdict(vc, verifier(np.protocol.instance, commitment, vc.challenge,
                                response))

\* verify from codec.prover_message on; commitment and response are what
\* the deserializations returned or raised
verify_deserialized(np, commitment, response, octets) ==
    IF commitment.exc # "None"
    THEN Outcome(commitment.exc, FALSE, np.hash_state, <<>>, <<>>, None)
    ELSE IF response.exc # "None"
    THEN Outcome(response.exc, FALSE, np.hash_state, <<>>, <<>>, None)
    ELSE verify_challenge(np, commitment.val, response.val,
             verifier_challenge(prover_message(np.hash_state, commitment.val),
                                octets))

\* verify from the split of the proof on
verify_split(np, proof, size, octets) ==
    verify_deserialized(np, deserialize_commitment(Slice(proof, 0, size)),
                        deserialize_response(Slice(proof, size, Len(proof))),
                        octets)

\* NonInteractiveProof.verify(proof)
verify(np, proof, octets) == verify_split(np, proof, commitment_size(np), octets)


----------------------------------------------------------------------------
(* test_sigma_protocols.py: the statements of the test vectors, built with *)
(* the LinearRelation builder                                              *)

\* discrete_logarithm: X = x * G
discrete_logarithm(x) ==
    LET G == generator
        X == Point_mul(G, x)
        s1 == allocate_scalars(LinearRelation, 1)
        s2 == allocate_elements(s1, 2)
        s3 == append_equation(s2, 1, << <<0, 0>> >>).rel
        s4 == set_elements(s3, << <<0, G>>, <<1, X>> >>)
    IN [statement |-> s4, witness |-> <<x>>]

\* dleq: X = x * G and Y = x * H, H = h * G
dleq(h, x) ==
    LET G == generator
        H == Point_mul(G, h)
        X == Point_mul(G, x)
        Y == Point_mul(H, x)
        s1 == allocate_scalars(LinearRelation, 1)
        s2 == allocate_elements(s1, 4)
        s3 == append_equation(s2, 1, << <<0, 0>> >>).rel
        s4 == append_equation(s3, 3, << <<0, 2>> >>).rel
        s5 == set_elements(s4, << <<0, G>>, <<1, X>>, <<2, H>>, <<3, Y>> >>)
    IN [statement |-> s5, witness |-> <<x>>]

\* pedersen_commitment: C = x * G + r * H, H = h * G
pedersen_commitment(h, x, r) ==
    LET G == generator
        H == Point_mul(G, h)
        C == Point_add(Point_mul(G, x), Point_mul(H, r))
        s1 == allocate_scalars(LinearRelation, 2)
        s2 == allocate_elements(s1, 3)
        s3 == append_equation(s2, 2, << <<0, 0>>, <<1, 1>> >>).rel
        s4 == set_elements(s3, << <<0, G>>, <<1, H>>, <<2, C>> >>)
    IN [statement |-> s4, witness |-> <<x, r>>]


----------------------------------------------------------------------------
(* Inputs offered                                                          *)

\* calls of prove and verify made in all
MaxCalls == 2

\* session identifiers offered
SessionIds == {<<115>>, <<115, 2>>}

\* seeds of the TestDRNG objects
Seeds == {1, 2}

\* what a hash function may yield for a squeeze of verifier_challenge: the
\* big-endian octets of these integers
ChallengeValues == {0, order + 5}

ChallengeOctets ==
    {to_bytes_big(v, scalar_byte_length + OverSqueeze) : v \in ChallengeValues}

\* the statements and witnesses offered: a witness of each test vector, the
\* statement with the identity as image, and a witness that is not one
Cases ==
    {discrete_logarithm(3), discrete_logarithm(0),
     dleq(5, 7), pedersen_commitment(5, 2, 9),
     [discrete_logarithm(3) EXCEPT !.witness = <<4>>]}

NoSession == [made |-> FALSE, session_id |-> <<>>, np |-> <<>>, calls |-> 0]
NoOutput == [op |-> "none"]

RECURSIVE Sum(_, _)
Sum(f, S) ==
    IF S = {} THEN 0
    ELSE LET x == CHOOSE y \in S : TRUE IN f[x] + Sum(f, S \ {x})

\* calls of prove and verify made so far
Calls == Sum([o \in Objects |-> session[o].calls], Objects)

\* phi(witness) = image
IsWitness(rel, w) ==
    /\ Len(w) = rel.linear_map.num_scalars
    /\ LinearMap_call(rel.linear_map, w) = image(rel)

\* the bytes the hash function yields for uniform_bytes: those it yielded
\* before, any of ChallengeOctets for bytes not squeezed before
Yields(uniform_bytes, octets) ==
    IF uniform_bytes \in DOMAIN xof THEN octets = xof[uniform_bytes]
    ELSE octets \in ChallengeOctets

Record(uniform_bytes, octets) ==
    IF uniform_bytes = <<>> \/ uniform_bytes \in DOMAIN xof THEN xof
    ELSE [q \in DOMAIN xof \cup {uniform_bytes} |->
             IF q = uniform_bytes THEN octets ELSE xof[q]]

----------------------------------------------------------------------------
(* Spec: the non-interactive Schnorr proof of one statement                *)

Init ==
    /\ \E c \in Cases : instances = <<c.statement>> /\ witnesses = <<c.witness>>
    /\ ciphersuite \in Suites
    /\ session = [o \in Objects |-> NoSession]
    /\ xof = <<>>
    /\ rngs = [o \in Objects |-> <<>>]
    /\ outputs = [o \in Objects |-> NoOutput]

\* NIZK(session_id, instance)
Call(o, session_id) ==
    /\ ~session[o].made
    /\ \E made \in {FiatShamirNIZK_call(CIPHERSUITE(ciphersuite), session_id,
                                         instances[1])} :
          /\ made.exc = "None"
          /\ session' = [session EXCEPT ![o] =
                 [made |-> TRUE, session_id |-> session_id, np |-> made.val,
                  calls |-> 0]]
    /\ UNCHANGED <<instances, witnesses, ciphersuite, xof, rngs, outputs>>

\* NIZK(...).prove(witness, TestDRNG(seed))
Prove(o, seed) ==
    /\ session[o].made
    /\ Calls < MaxCalls
    /\ \E octets \in ChallengeOctets :
         \E out \in {prove(session[o].np, witnesses[1], TestDRNG(seed), octets)} :
            /\ Yields(out.uniform_bytes, octets)
            /\ session' = [session EXCEPT ![o].np.hash_state = out.hash_state,
                                          ![o].calls = @ + 1]
            /\ xof' = Record(out.uniform_bytes, octets)
            /\ rngs' = [rngs EXCEPT ![o] = out.rng]
            /\ outputs' = [outputs EXCEPT ![o] =
                   [op |-> "prove", exc |-> out.exc, proof |-> out.val,
                    fresh |-> session[o].calls = 0, seed |-> seed,
                    challenge |-> out.challenge,
                    uniform_bytes |-> out.uniform_bytes]]
    /\ UNCHANGED <<instances, witnesses, ciphersuite>>

\* NIZK(...).verify(proof), proof the bytes the other object's prove returned
Verify(o, from) ==
    /\ session[o].made
    /\ Calls < MaxCalls
    /\ outputs[from].op = "prove"
    /\ outputs[from].exc = "None"
    /\ \E octets \in ChallengeOctets :
         \E out \in {verify(session[o].np, outputs[from].proof, octets)} :
            /\ Yields(out.uniform_bytes, octets)
            /\ session' = [session EXCEPT ![o].np.hash_state = out.hash_state,
                                          ![o].calls = @ + 1]
            /\ xof' = Record(out.uniform_bytes, octets)
            /\ outputs' = [outputs EXCEPT ![o] =
                   [op |-> "verify", exc |-> out.exc, accepted |-> out.val,
                    proof |-> outputs[from].proof,
                    fresh |-> session[o].calls = 0,
                    honest |-> outputs[from].fresh,
                    same_session |-> session[from].session_id = session[o].session_id,
                    challenge |-> out.challenge,
                    prover_challenge |-> outputs[from].challenge,
                    uniform_bytes |-> out.uniform_bytes]]
    /\ UNCHANGED <<instances, witnesses, ciphersuite, rngs>>

Next ==
    \/ \E o \in Objects, session_id \in SessionIds : Call(o, session_id)
    \/ \E o \in Objects, seed \in Seeds : Prove(o, seed)
    \/ \E o \in Objects : \E from \in Objects \ {o} : Verify(o, from)

Spec == Init /\ [][Next]_vars

----------------------------------------------------------------------------
(* Properties of the non-interactive proof                                 *)

\* the hash function is collision-free on the bytes squeezed so far:
\* different squeezed bytes stand for different challenges
CollisionFree ==
    \A q1 \in DOMAIN xof : \A q2 \in DOMAIN xof :
        q1 # q2 => OS2IP(xof[q1]) % order # OS2IP(xof[q2]) % order

\* object o has verified, as its first call, the proof that a first call of
\* prove returned for a witness of the statement
VerifiedHonest(o) ==
    /\ outputs[o].op = "verify"
    /\ outputs[o].fresh
    /\ outputs[o].honest
    /\ IsWitness(instances[1], witnesses[1])

\* C1: completeness.  The proof that prove returns for a witness w with
\* phi(w) = image is accepted by a fresh verifier built over the same
\* statement, session identifier and ciphersuite.
C1_Completeness ==
    \A o \in Objects :
        (VerifiedHonest(o) /\ outputs[o].same_session)
            => (outputs[o].exc = "None" /\ outputs[o].accepted)

C1_Witness ==
    \E o \in Objects :
        /\ VerifiedHonest(o) /\ outputs[o].same_session
        /\ instances[1].linear_map.num_constraints = 2
        /\ outputs[o].accepted

HasNonIdentity(rel) ==
    \E i \in 1..Len(image(rel).val) : ~image(rel).val[i].is_infinity

\* C3 as stated: over a collision-free hash, a verifier built with another
\* session identifier derives another challenge and rejects the proof.
C3_SessionBinding ==
    \A o \in Objects :
        (VerifiedHonest(o) /\ ~outputs[o].same_session /\ CollisionFree)
            => (/\ outputs[o].challenge # outputs[o].prover_challenge
                /\ ~outputs[o].accepted)

\* C3 amended: over a collision-free hash, a verifier built with another
\* session identifier derives another challenge, and rejects the proof when
\* the image of the statement has an element other than the identity.
C3_SessionBindingNonIdentity ==
    \A o \in Objects :
        (VerifiedHonest(o) /\ ~outputs[o].same_session /\ CollisionFree)
            => (/\ outputs[o].challenge # outputs[o].prover_challenge
                /\ (HasNonIdentity(instances[1]) => ~outputs[o].accepted))

C3_Witness ==
    \E o \in Objects :
        /\ VerifiedHonest(o) /\ ~outputs[o].same_session /\ CollisionFree
        /\ HasNonIdentity(instances[1])
        /\ outputs[o].challenge # outputs[o].prover_challenge
        /\ ~outputs[o].accepted

----------------------------------------------------------------------------
(* SpecVerifier: SchnorrProof.verifier on commitments, challenges and      *)
(* responses of every shape                                                *)

\* the longest commitment and response offered
MaxLen == 2

\* the group elements offered in a commitment, and the scalars offered as a
\* challenge and in a response
CommitmentPool == {identity, generator, Point_mul(generator, 5)}
ResponsePool == {0, 1, 8}
ChallengePool == {0, 1, order + 1}

SeqsUpTo(S, length) == UNION {[1..l -> S] : l \in 0..length}

InitVerifier ==
    /\ \E c \in Cases : instances = <<c.statement>> /\ witnesses = <<c.witness>>
    /\ ciphersuite = "none"
    /\ session = [o \in Objects |-> NoSession]
    /\ xof = <<>>
    /\ rngs = [o \in Objects |-> <<>>]
    /\ outputs = [o \in Objects |-> NoOutput]

\* SchnorrProof(instance).verifier(commitment, challenge, response)
Verifier(commitment, challenge, response) ==
    /\ outputs["first"].op = "none"
    /\ \E verdict \in {verifier(instances[1], commitment, challenge, response)} :
          outputs' = [outputs EXCEPT !["first"] =
              [op |-> "verifier", commitment |-> commitment,
               challenge |-> challenge, response |-> response,
               exc |-> verdict.exc, accepted |-> verdict.exc = "None"]]
    /\ UNCHANGED <<instances, witnesses, ciphersuite, session, xof, rngs>>

NextVerifier ==
    \E commitment \in SeqsUpTo(CommitmentPool, MaxLen),
       challenge \in ChallengePool,
       response \in SeqsUpTo(ResponsePool, MaxLen) :
        Verifier(commitment, challenge, response)

SpecVerifier == InitVerifier /\ [][NextVerifier]_vars

RECURSIVE Multiples(_, _)
\* the elements 0*P, 1*P, ..., k*P, each the one before plus P
Multiples(P, k) ==
    IF k = 0 THEN <<identity>>
    ELSE LET before == Multiples(P, k - 1)
         IN Append(before, Point_add(before[k], P))

\* the table of the group: k*G = (k \div Stride)*(Stride*G) + (k % Stride)*G
Stride == CHOOSE w \in 1..order : w * w >= order /\ (w - 1) * (w - 1) < order
SmallSteps == Multiples(generator, Stride)
GiantSteps == Multiples(SmallSteps[Stride + 1], order \div Stride)
GroupTable ==
    [k \in 0..(order - 1) |->
        Point_add(GiantSteps[(k \div Stride) + 1], SmallSteps[(k % Stride) + 1])]

\* the k in 0..order-1 with k*G = P
DLog(P) == CHOOSE k \in 0..(order - 1) : GroupTable[k] = P

\* phi(z)[i] = T[i] + e*x[i], as an equation between discrete logarithms
\* modulo the group order
EquationHolds(rel, i, T, e, z) ==
    LET lc == rel.linear_map.linear_combinations[i]
        terms == [j \in 1..Len(lc.scalar_indices) |->
                     (z[lc.scalar_indices[j] + 1]
                        * DLog(rel.linear_map.group_elements[lc.element_indices[j] + 1]))
                     % order]
        lhs == Sum(terms, DOMAIN terms) % order
        rhs == (DLog(T[i]) + (e % order) * DLog(image(rel).val[i])) % order
    IN lhs = rhs

\* C2: SchnorrProof.verifier(T, e, z) with len(T) = num_constraints and
\* len(z) = num_scalars returns True exactly when phi(z)[i] = T[i] + e*x[i]
\* for every constraint i; for every other (T, e, z) it raises.
C2_VerifierEquation ==
    outputs["first"].op = "verifier" =>
        LET rel == instances[1]
            T == outputs["first"].commitment
            e == outputs["first"].challenge
            z == outputs["first"].response
        IN /\ outputs["first"].accepted <=>
                  (/\ Len(T) = rel.linear_map.num_constraints
                   /\ Len(z) = rel.linear_map.num_scalars
                   /\ \A i \in 1..rel.linear_map.num_constraints :
                          EquationHolds(rel, i, T, e, z))
           /\ ~outputs["first"].accepted => outputs["first"].exc # "None"

C2_Witness ==
    /\ outputs["first"].op = "verifier"
    /\ outputs["first"].accepted
    /\ outputs["first"].challenge = order + 1
    /\ instances[1].linear_map.num_constraints = 2
    /\ \E i \in 1..2 : ~outputs["first"].commitment[i].is_infinity

----------------------------------------------------------------------------
(* SpecTamper: a proof with one byte replaced, offered to a verifier       *)

\* the values a byte of the proof is replaced by
ByteValues == {0, 4, 255}

\* verify(proof) on one object built as o is, then verify of the proof with
\* the byte at pos replaced by value on o; both start from the hash state o
\* holds
VerifyTampered(o, from, pos, value) ==
    /\ session[o].made
    /\ Calls < MaxCalls
    /\ outputs[from].op = "prove"
    /\ outputs[from].exc = "None"
    /\ pos \in 1..Len(outputs[from].proof)
    /\ value # outputs[from].proof[pos]
    /\ \E octets0 \in ChallengeOctets : \E octets \in ChallengeOctets :
         \E tampered \in {[outputs[from].proof EXCEPT ![pos] = value]} :
         \E original \in {verify(session[o].np, outputs[from].proof, octets0)} :
         \E out \in {verify(session[o].np, tampered, octets)} :
            /\ Yields(original.uniform_bytes, octets0)
            /\ IF out.uniform_bytes = original.uniform_bytes
               THEN octets = octets0
               ELSE Yields(out.uniform_bytes, octets)
            /\ session' = [session EXCEPT ![o].np.hash_state = out.hash_state,
                                          ![o].calls = @ + 1]
            /\ xof' = [q \in DOMAIN xof
                             \cup ({original.uniform_bytes, out.uniform_bytes} \ {<<>>}) |->
                          IF q \in DOMAIN xof THEN xof[q]
                          ELSE IF q = original.uniform_bytes THEN octets0
                          ELSE octets]
            /\ outputs' = [outputs EXCEPT ![o] =
                   [op |-> "verify_tampered", exc |-> out.exc,
                    accepted |-> out.val,
                    original_accepted |-> original.val,
                    proof |-> tampered, pos |-> pos,
                    fresh |-> session[o].calls = 0,
                    same_session |-> session[from].session_id = session[o].session_id,
                    challenge |-> out.challenge,
                    uniform_bytes |-> out.uniform_bytes]]
    /\ UNCHANGED <<instances, witnesses, ciphersuite, rngs>>

\* the longest proof of Cases: two commitments and a response, or a
\* commitment and two responses
ProofPositions == 1..(2 * element_byte_length + 2 * scalar_byte_length)

NextTamper ==
    \/ \E o \in Objects, session_id \in SessionIds : Call(o, session_id)
    \/ \E o \in Objects, seed \in Seeds : Prove(o, seed)
    \/ \E o \in Objects : \E from \in Objects \ {o} :
         \E pos \in ProofPositions, value \in ByteValues :
             VerifyTampered(o, from, pos, value)

SpecTamper == Init /\ [][NextTamper]_vars

\* C5: non-malleability of the proof bytes.  When verify accepts a proof
\* under (session_id, statement), verify under the same (session_id,
\* statement) does not accept the proof with one byte replaced by another
\* value.
C5_NonMalleable ==
    \A o \in Objects :
        (/\ outputs[o].op = "verify_tampered"
         /\ outputs[o].fresh
         /\ outputs[o].original_accepted)
            => ~outputs[o].accepted

----------------------------------------------------------------------------
(* SpecBind: two statements, a verifier built over each, and one proof     *)
(* offered to both                                                         *)

\* C = x * H + r * G over the elements of pedersen_commitment, the scalars of
\* its equation taken in the other order
pedersen_swapped(h, x, r) ==
    LET G == generator
        H == Point_mul(G, h)
        C == Point_add(Point_mul(G, x), Point_mul(H, r))
        s1 == allocate_scalars(LinearRelation, 2)
        s2 == allocate_elements(s1, 3)
        s3 == append_equation(s2, 2, << <<0, 1>>, <<1, 0>> >>).rel
        s4 == set_elements(s3, << <<0, G>>, <<1, H>>, <<2, C>> >>)
    IN [statement |-> s4, witness |-> <<x, r>>]

\* statements of one shape that differ in the index pairs of the equation,
\* in a group element of the map, or in the image element
BindStatements ==
    {pedersen_commitment(5, 2, 9).statement,
     pedersen_swapped(5, 2, 9).statement,
     pedersen_commitment(6, 2, 9).statement,
     pedersen_commitment(5, 3, 9).statement}

\* the proofs offered: a commitment and a response of two scalars
BindProofs ==
    {Group_serialize(<<T>>) \o Scalar_serialize(<<1, 8>>) : T \in CommitmentPool}

\* the statement object o is built over
StatementOf(o) == IF o = "first" THEN instances[1] ELSE instances[2]

\* what a verifier is given: the maps, the group elements and the image
PublicStatement(rel) ==
    [linear_combinations |-> rel.linear_map.linear_combinations,
     group_elements |-> rel.linear_map.group_elements,
     image |-> image(rel).val]

InitBind ==
    /\ instances \in [1..2 -> BindStatements]
    /\ witnesses = <<>>
    /\ ciphersuite \in Suites
    /\ session = [o \in Objects |-> NoSession]
    /\ xof = <<>>
    /\ rngs = [o \in Objects |-> <<>>]
    /\ outputs = [o \in Objects |-> NoOutput]

\* NIZK(session_id, instance), instance the statement of o
CallBind(o, session_id) ==
    /\ ~session[o].made
    /\ \E made \in {FiatShamirNIZK_call(CIPHERSUITE(ciphersuite), session_id,
                                         StatementOf(o))} :
          /\ made.exc = "None"
          /\ session' = [session EXCEPT ![o] =
                 [made |-> TRUE, session_id |-> session_id, np |-> made.val,
                  calls |-> 0]]
    /\ UNCHANGED <<instances, witnesses, ciphersuite, xof, rngs, outputs>>

\* NIZK(...).verify(proof), as the first call on o
VerifyBind(o, proof) ==
    /\ session[o].made
    /\ session[o].calls = 0
    /\ \E octets \in ChallengeOctets :
         \E out \in {verify(session[o].np, proof, octets)} :
            /\ Yields(out.uniform_bytes, octets)
            /\ session' = [session EXCEPT ![o].np.hash_state = out.hash_state,
                                          ![o].calls = @ + 1]
            /\ xof' = Record(out.uniform_bytes, octets)
            /\ outputs' = [outputs EXCEPT ![o] =
                   [op |-> "verify", exc |-> out.exc, accepted |-> out.val,
                    proof |-> proof,
                    label |-> get_label(StatementOf(o)).val,
                    challenge |-> out.challenge,
                    uniform_bytes |-> out.uniform_bytes]]
    /\ UNCHANGED <<instances, witnesses, ciphersuite, rngs>>

NextBind ==
    \/ \E o \in Objects, session_id \in SessionIds : CallBind(o, session_id)
    \/ \E o \in Objects, proof \in BindProofs : VerifyBind(o, proof)

SpecBind == InitBind /\ [][NextBind]_vars

\* C4: statement binding.  Two statements that differ in the index pairs of
\* an equation, in a group element of the map or in an image element have
\* different instance labels, so with the same session identifier and the
\* same commitment the challenges squeezed for them differ (the hash
\* functions collision-free).
C4_StatementBinding ==
    (/\ outputs["first"].op = "verify" /\ outputs["second"].op = "verify"
     /\ session["first"].session_id = session["second"].session_id
     /\ outputs["first"].proof = outputs["second"].proof
     /\ PublicStatement(instances[1]) # PublicStatement(instances[2])
     /\ CollisionFree)
        => (/\ outputs["first"].label # outputs["second"].label
            /\ outputs["first"].challenge # outputs["second"].challenge)

----------------------------------------------------------------------------
(* SpecCompose: the interactive AND and OR compositions over two           *)
(* sub-statements, and NIAndProof                                          *)

\* the sub-statements of a composition, as test_and_proof builds them
SubStatements == 2

\* the challenges the verifier of the interactive protocol sends
Challenges == {0, 5, order - 1}

NoRun == [phase |-> "new"]

InitCompose ==
    /\ \E cases \in [1..SubStatements -> Cases] :
         /\ instances = [i \in 1..SubStatements |-> cases[i].statement]
         /\ witnesses = [i \in 1..SubStatements |-> cases[i].witness]
    /\ ciphersuite = "none"
    /\ session = [o \in Objects |-> NoSession]
    /\ xof = <<>>
    /\ rngs = [o \in Objects |-> NoRun]
    /\ outputs = [o \in Objects |-> NoOutput]

\* AndProof(instances).prover_commit(witnesses, TestDRNG(seed))
AndCommit(seed) ==
    /\ rngs["first"].phase = "new"
    /\ ~session["first"].made
    /\ \E out \in {And_prover_commit(AndProof(instances), witnesses,
                                      TestDRNG(seed))} :
          /\ out.exc = "None"
          /\ rngs' = [rngs EXCEPT !["first"] =
                 [phase |-> "committed", prover_states |-> out.prover_states,
                  commitments |-> out.commitments, rng |-> out.rng]]
    /\ UNCHANGED <<instances, witnesses, ciphersuite, session, xof, outputs>>

\* AndProof(instances).prover_response(prover_states, challenge)
AndResponse(challenge) ==
    /\ rngs["first"].phase = "committed"
    /\ \E out \in {And_prover_response(AndProof(instances),
                                        rngs["first"].prover_states, challenge)} :
          /\ out.exc = "None"
          /\ rngs' = [rngs EXCEPT !["first"] =
                 [phase |-> "responded",
                  prover_states |-> rngs["first"].prover_states,
                  commitments |-> rngs["first"].commitments,
                  challenge |-> challenge, responses |-> out.val]]
    /\ UNCHANGED <<instances, witnesses, ciphersuite, session, xof, outputs>>

\* what a verifier is handed: the first given commitments and responses of
\* the prover, the response of sub-statement changed, if any, with one added
\* to its first scalar
Handed(given_commitments, given_responses, changed) ==
    [commitments |-> SubSeq(rngs["first"].commitments, 1, given_commitments),
     responses |->
         [i \in 1..given_responses |->
             IF i = changed
             THEN [rngs["first"].responses[i] EXCEPT ![1] = (@ + 1) % order]
             ELSE rngs["first"].responses[i]]]

\* AndProof(instances).verifier(commitments, challenge, responses)
AndVerifier(given_commitments, given_responses, changed, challenge) ==
    /\ rngs["first"].phase = "responded"
    /\ \A o \in Objects : outputs[o].op = "none"
    /\ \E handed \in {Handed(given_commitments, given_responses, changed)} :
       \E verdict \in {And_verifier(AndProof(instances), handed.commitments,
                                    challenge, handed.responses)} :
          outputs' = [outputs EXCEPT !["first"] =
              [op |-> "AndProof.verifier", commitments |-> handed.commitments,
               challenge |-> challenge, responses |-> handed.responses,
               exc |-> verdict.exc,
               accepted |-> verdict.exc = "None" /\ verdict.val]]
    /\ UNCHANGED <<instances, witnesses, ciphersuite, session, xof, rngs>>

\* OrProof(instances).verifier(commitments, challenge, responses)
OrVerifier(given_commitments, given_responses, changed, challenge) ==
    /\ rngs["first"].phase = "responded"
    /\ \A o \in Objects : outputs[o].op = "none"
    /\ \E handed \in {Handed(given_commitments, given_responses, changed)} :
       \E verdict \in {Or_verifier(OrProof(instances), handed.commitments,
                                   challenge, handed.responses)} :
          outputs' = [outputs EXCEPT !["second"] =
              [op |-> "OrProof.verifier", commitments |-> handed.commitments,
               challenge |-> challenge, responses |-> handed.responses,
               exc |-> verdict.exc,
               accepted |-> verdict.exc = "None" /\ verdict.val]]
    /\ UNCHANGED <<instances, witnesses, ciphersuite, session, xof, rngs>>

\* NIAndProof()(session_id, instance), instance the list of the
\* sub-statements or the AndProof over them
NIAndCall(session_id, given) ==
    /\ ~session["first"].made
    /\ rngs["first"].phase = "new"
    /\ \E made \in {FiatShamirNIZK_call(
                         NIAndProof, session_id,
                         IF given = "list"
                         THEN [cls |-> "list", items |-> instances]
                         ELSE AndProof(instances))} :
          session' = [session EXCEPT !["first"] =
              [made |-> TRUE, session_id |-> session_id, given |-> given,
               exc |-> made.exc, calls |-> 0]]
    /\ UNCHANGED <<instances, witnesses, ciphersuite, xof, rngs, outputs>>

NextCompose ==
    \/ \E seed \in Seeds : AndCommit(seed)
    \/ \E challenge \in Challenges : AndResponse(challenge)
    \/ \E given_commitments \in 0..SubStatements,
          given_responses \in 0..SubStatements,
          changed \in 0..SubStatements, challenge \in Challenges :
           AndVerifier(given_commitments, given_responses, changed, challenge)
    \/ \E given_commitments \in 0..SubStatements,
          given_responses \in 0..SubStatements,
          changed \in 0..SubStatements, challenge \in Challenges :
           OrVerifier(given_commitments, given_responses, changed, challenge)
    \/ \E session_id \in SessionIds, given \in {"list", "AndProof"} :
           NIAndCall(session_id, given)

SpecCompose == InitCompose /\ [][NextCompose]_vars

\* the SchnorrProof verifier of sub-statement i returns True for the i-th
\* commitment and response of the lists
SubAccepts(i, commitments, challenge, responses) ==
    /\ i <= Len(commitments)
    /\ i <= Len(responses)
    /\ verifier(instances[i], commitments[i], challenge, responses[i]).exc = "None"

\* C7: AndProof.verifier over k sub-statements accepts (commitments, e,
\* responses) if and only if the i-th SchnorrProof verifier accepts
\* (commitments[i], e, responses[i]) for each of the k sub-statements: it
\* never accepts lists that leave a sub-statement unchecked.
C7_AndVerifier ==
    outputs["first"].op = "AndProof.verifier" =>
        (outputs["first"].accepted <=>
            \A i \in 1..SubStatements :
                SubAccepts(i, outputs["first"].commitments,
                           outputs["first"].challenge,
                           outputs["first"].responses))

\* C8: NIAndProof()(session_id, sub-statements) yields an object (whose
\* prove returns a proof derived from one shared challenge and whose verify
\* accepts that proof).
C8_NIAndProof ==
    (session["first"].made /\ session["first"].given = "list")
        => session["first"].exc = "None"

\* C9: interactive completeness of the AND composition.  With a valid
\* witness for each sub-statement and any challenge e, prover_commit then
\* prover_response leave one commitment and one response per sub-statement,
\* every response z = r + e * w for the same e, and
\* AndProof.verifier(commitments, e, responses) returns True.
C9_AndCompleteness ==
    (/\ rngs["first"].phase = "responded"
     /\ \A i \in 1..SubStatements : IsWitness(instances[i], witnesses[i]))
        => LET run == rngs["first"]
           IN /\ Len(run.commitments) = SubStatements
              /\ Len(run.responses) = SubStatements
              /\ \A i \in 1..SubStatements :
                     /\ Len(run.responses[i]) = Len(witnesses[i])
                     /\ \A j \in 1..Len(witnesses[i]) :
                            run.responses[i][j] =
                                (run.prover_states[i].nonces[j]
                                   + run.challenge * witnesses[i][j]) % order
              /\ And_verifier(AndProof(instances), run.commitments,
                              run.challenge, run.responses) = Ok(TRUE)
              /\ (/\ outputs["first"].op = "AndProof.verifier"
                  /\ outputs["first"].commitments = run.commitments
                  /\ outputs["first"].responses = run.responses
                  /\ outputs["first"].challenge = run.challenge)
                     => outputs["first"].accepted

C9_Witness ==
    /\ rngs["first"].phase = "responded"
    /\ \A i \in 1..SubStatements : IsWitness(instances[i], witnesses[i])
    /\ instances[1] # instances[2]
    /\ rngs["first"].challenge = order - 1
    /\ outputs["first"].op = "AndProof.verifier"
    /\ outputs["first"].commitments = rngs["first"].commitments
    /\ outputs["first"].responses = rngs["first"].responses
    /\ outputs["first"].challenge = rngs["first"].challenge
    /\ outputs["first"].accepted

\* C10: OrProof.verifier over k sub-statements accepts only when it is given
\* one commitment and one response per branch, and there are challenges e_i
\* of the branches that sum to the shared challenge e with every branch i
\* verifying against its own e_i.
C10_OrVerifier ==
    (outputs["second"].op = "OrProof.verifier" /\ outputs["second"].accepted)
        => LET commitments == outputs["second"].commitments
               responses == outputs["second"].responses
               e == outputs["second"].challenge
           IN /\ Len(commitments) = SubStatements
              /\ Len(responses) = SubStatements
              /\ \E e1 \in 0..(order - 1) :
                     /\ SubAccepts(1, commitments, e1, responses)
                     /\ SubAccepts(2, commitments, (e - e1) % order, responses)

----------------------------------------------------------------------------
(* SpecOr: two provers of the OR composition over the same two             *)
(* sub-statements, each with the witness of a branch of its own, and the   *)
(* protocol identifier of a protocol class                                 *)

InitOr ==
    /\ \E cases \in [1..SubStatements -> Cases] :
         /\ instances = [i \in 1..SubStatements |-> cases[i].statement]
         /\ witnesses = [i \in 1..SubStatements |-> cases[i].witness]
    /\ ciphersuite = "none"
    /\ session = [o \in Objects |-> NoSession]
    /\ xof = <<>>
    /\ rngs = [o \in Objects |-> NoRun]
    /\ outputs = [o \in Objects |-> NoOutput]

\* OrProof(instances).prover_commit(witness_index, witness, TestDRNG(seed))
\* with the witness of branch witness_index
OrCommit(o, witness_index, seed) ==
    /\ rngs[o].phase = "new"
    /\ \E out \in {Or_prover_commit(OrProof(instances), witness_index,
                                     witnesses[witness_index + 1],
                                     TestDRNG(seed))} :
          rngs' = [rngs EXCEPT ![o] =
              [phase |-> "committed", exc |-> out.exc,
               prover_state |-> [prover_states |-> out.prover_states,
                                 commitments |-> out.commitments,
                                 witness_index |-> out.witness_index],
               rng |-> out.rng]]
    /\ UNCHANGED <<instances, witnesses, ciphersuite, session, xof, outputs>>

\* OrProof(instances).prover_response(prover_state, challenge)
OrResponse(o, challenge) ==
    /\ rngs[o].phase = "committed"
    /\ rngs[o].exc = "None"
    /\ outputs[o].op = "none"
    /\ \E out \in {Or_prover_response(OrProof(instances),
                                       rngs[o].prover_state, challenge)} :
          outputs' = [outputs EXCEPT ![o] =
              [op |-> "OrProof.prover_response", challenge |-> challenge,
               exc |-> out.exc, responses |-> out.val]]
    /\ UNCHANGED <<instances, witnesses, ciphersuite, session, xof, rngs>>

\* cls.get_protocol_id(), cls the class of the composition or of its
\* sub-protocols
GetProtocolId(cls) ==
    /\ ~session["first"].made
    /\ session' = [session EXCEPT !["first"] =
           [made |-> TRUE, cls |-> cls, protocol_id |-> get_protocol_id(cls)]]
    /\ UNCHANGED <<instances, witnesses, ciphersuite, xof, rngs, outputs>>

NextOr ==
    \/ \E o \in Objects, witness_index \in 0..(SubStatements - 1),
          seed \in Seeds : OrCommit(o, witness_index, seed)
    \/ \E o \in Objects, challenge \in Challenges : OrResponse(o, challenge)
    \/ \E cls \in {"SchnorrProof", "AndProof", "OrProof"} : GetProtocolId(cls)

SpecOr == InitOr /\ [][NextOr]_vars

\* the prover of object o holds a valid witness for its branch
HonestBranch(o) ==
    /\ rngs[o].phase = "committed"
    /\ IsWitness(instances[rngs[o].prover_state.witness_index + 1],
                 witnesses[rngs[o].prover_state.witness_index + 1])

\* which positions of the commitments a prover sends hold a commitment
CommitmentForm(o) ==
    [i \in 1..Len(rngs[o].prover_state.commitments) |->
        ~rngs[o].prover_state.commitments[i].is_none]

RECURSIVE TagLength(_)
\* the bytes of a protocol identifier before its first NUL
TagLength(id) ==
    IF id = <<>> \/ Head(id) = 0 THEN 0 ELSE 1 + TagLength(Tail(id))

\* C19: every protocol identifier get_protocol_id returns (SchnorrProof,
\* AndProof, OrProof) is exactly 64 bytes long: the ASCII tag, then NUL
\* bytes up to 64 bytes.
C19_ProtocolIdLength ==
    session["first"].made
        => LET id == session["first"].protocol_id
           IN /\ Len(id) = 64
              /\ TagLength(id) > 0
              /\ \A i \in 1..Len(id) :
                     IF i <= TagLength(id) THEN id[i] \in 32..126 ELSE id[i] = 0

\* C11: witness indistinguishability of the OR composition.  An honest run
\* of prover_commit(j, witness, rng) and prover_response(state, e) over the
\* two sub-statements completes with one response per branch, and the
\* commitments two provers send have the same form whatever branch each
\* holds the witness of: no position tells the real branch from the others.
C11_OrIndistinguishable ==
    /\ \A o \in Objects :
         (HonestBranch(o) /\ outputs[o].op = "OrProof.prover_response")
            => /\ outputs[o].exc = "None"
               /\ Len(outputs[o].responses) = SubStatements
    /\ (\A o \in Objects : HonestBranch(o))
            => CommitmentForm("first") = CommitmentForm("second")

----------------------------------------------------------------------------
(* SpecSponge: two duplex sponges of one variant, each constructed with an *)
(* IV or cloned from the other, and driven by absorb and squeeze calls     *)

\* operations made on a sponge in all
MaxOps == 2

\* the initial_state offered (None and b'' give the same sponge)
IVs == {<<>>, <<1>>}

\* the data offered to absorb, and the lengths offered to squeeze
Datas == {<<>>, <<1>>, <<1, 1>>}
Lengths == {0, 2, DigestSize + 1}

NoSponge == [made |-> FALSE]

\* the class of the sponges, as the ciphersuite names it
SpongeClass == CIPHERSUITE(ciphersuite).Sponge

InitSponge ==
    /\ ciphersuite \in Suites
    /\ instances = <<>>
    /\ witnesses = <<>>
    /\ session = [o \in Objects |-> NoSponge]
    /\ xof = <<>>
    /\ rngs = [o \in Objects |-> NoRun]
    /\ outputs = [o \in Objects |-> NoOutput]

\* sponge = DuplexSponge(iv), of run_operations
NewSponge(o, iv) ==
    /\ ~session[o].made
    /\ session' = [session EXCEPT ![o] =
           [made |-> TRUE, iv |-> iv, cloned |-> FALSE, cloned_at |-> 0,
            hash_state |-> Sponge(SpongeClass, Lit(iv)), ops |-> <<>>,
            squeezed |-> <<>>]]
    /\ UNCHANGED <<instances, witnesses, ciphersuite, xof, rngs, outputs>>

\* the sponge of o is from.clone(): it has the history of from
CloneSponge(o, from) ==
    /\ ~session[o].made
    /\ session[from].made
    /\ session' = [session EXCEPT ![o] =
           [session[from] EXCEPT !.cloned = TRUE,
                                 !.cloned_at = Len(session[from].ops),
                                 !.hash_state = clone(@)]]
    /\ UNCHANGED <<instances, witnesses, ciphersuite, xof, rngs, outputs>>

\* sponge.absorb(data)
Absorb(o, data) ==
    /\ session[o].made
    /\ Len(session[o].ops) < MaxOps
    /\ session' = [session EXCEPT ![o] =
           [@ EXCEPT !.hash_state = absorb(@, Lit(data)),
                     !.ops = Append(@, [type |-> "absorb", input |-> data,
                                        length |-> 0])]]
    /\ UNCHANGED <<instances, witnesses, ciphersuite, xof, rngs, outputs>>

\* output = sponge.squeeze(length)
Squeeze(o, length) ==
    /\ session[o].made
    /\ Len(session[o].ops) < MaxOps
    /\ \E out \in {squeeze(session[o].hash_state, length)} :
          session' = [session EXCEPT ![o] =
              [@ EXCEPT !.hash_state = out.sponge,
                        !.ops = Append(@, [type |-> "squeeze", input |-> <<>>,
                                           length |-> length]),
                        !.squeezed = Append(@, out.output)]]
    /\ UNCHANGED <<instances, witnesses, ciphersuite, xof, rngs, outputs>>

NextSponge ==
    \/ \E o \in Objects, iv \in IVs : NewSponge(o, iv)
    \/ \E o \in Objects, from \in Objects : CloneSponge(o, from)
    \/ \E o \in Objects, data \in Datas : Absorb(o, data)
    \/ \E o \in Objects, length \in Lengths : Squeeze(o, length)

SpecSponge == InitSponge /\ [][NextSponge]_vars

\* an operation that absorbs or squeezes at least one byte
NonZeroLength(op) ==
    IF op.type = "absorb" THEN op.input # <<>> ELSE op.length > 0

NonEmpty(bytes) == bytes # <<>>

\* the bytes a squeeze(length) made now on the sponge of o would return
NextSqueeze(o, length) == squeeze(session[o].hash_state, length).output

\* both sponges are constructed
BothMade == \A o \in Objects : session[o].made

\* C12: zero-length operations are no-ops.  Two sponges of one variant with
\* the same IV whose operation sequences are the same but for absorb(b'')
\* and squeeze(0) calls have returned the same bytes from their squeezes of
\* a positive length, and return the same bytes from the next squeeze.
C12_ZeroLengthNoOps ==
    (/\ BothMade
     /\ session["first"].iv = session["second"].iv
     /\ SelectSeq(session["first"].ops, NonZeroLength)
            = SelectSeq(session["second"].ops, NonZeroLength))
        => /\ SelectSeq(session["first"].squeezed, NonEmpty)
                  = SelectSeq(session["second"].squeezed, NonEmpty)
           /\ \A length \in Lengths :
                  NextSqueeze("first", length) = NextSqueeze("second", length)

\* C13: transcript separation.  With the hash collision-free, two sponges of one variant whose IV or ordered sequence of
\* absorb(data) and squeeze(len) operations differ never return the same
\* bytes from the next squeeze (of a positive length).
C13_TranscriptSeparation ==
    (/\ BothMade
     /\ <<session["first"].iv, session["first"].ops>>
            # <<session["second"].iv, session["second"].ops>>)
        => \A length \in Lengths \ {0} :
               NextSqueeze("first", length) # NextSqueeze("second", length)

\* C14: sponge determinism.  Two sponges of one variant with the same IV and
\* the same ordered sequence of absorb and squeeze calls, one of them
\* possibly a clone() of the other taken at any point, have returned equal
\* bytes from every squeeze and return equal bytes from the next; and a
\* call on one sponge leaves the state of the other unchanged.
C14_SpongeDeterminism ==
    /\ []((/\ BothMade
           /\ session["first"].iv = session["second"].iv
           /\ session["first"].ops = session["second"].ops)
             => /\ session["first"].squeezed = session["second"].squeezed
                /\ \A length \in Lengths :
                       NextSqueeze("first", length) = NextSqueeze("second", length))
    /\ [][\A o \in Objects : \A other \in Objects \ {o} :
             (session[o].made /\ session[other].made
                  /\ session'[o] # session[o])
                 => session'[other] = session[other]]_vars

C14_Witness ==
    /\ BothMade
    /\ session["second"].cloned
    /\ session["second"].cloned_at = 1
    /\ Len(session["second"].ops) = MaxOps
    /\ session["first"].ops = session["second"].ops
    /\ session["second"].squeezed # <<>>
    /\ \A i \in 1..Len(session["second"].squeezed) :
           session["second"].squeezed[i] # <<>>
    /\ session["first"].squeezed = session["second"].squeezed

----------------------------------------------------------------------------
(* SpecSerialize: a list of one group element or of one scalar is          *)
(* serialized, and the bytes are deserialized                              *)

\* every group element: the points of the curve and the identity
Elements ==
    {identity} \cup
        {P \in {Point(px, py) : px \in 0..(P256_p - 1), py \in 0..(P256_p - 1)} :
            OnCurve(P)}

\* every scalar
Scalars == 0..(order - 1)

InitSerialize ==
    /\ instances \in {[cls |-> "GroupP256", list |-> <<P>>] : P \in Elements}
                       \cup {[cls |-> "ScalarField", list |-> <<s>>] : s \in Scalars}
    /\ witnesses = <<>>
    /\ ciphersuite = "none"
    /\ session = [o \in Objects |-> NoSession]
    /\ xof = <<>>
    /\ rngs = [o \in Objects |-> NoRun]
    /\ outputs = [o \in Objects |-> NoOutput]

\* GroupP256.serialize(list), ScalarField.serialize(list)
Serialize ==
    /\ outputs["first"].op = "none"
    /\ outputs' = [outputs EXCEPT !["first"] =
           [op |-> "serialize",
            data |-> IF instances.cls = "GroupP256"
                     THEN Group_serialize(instances.list)
                     ELSE Scalar_serialize(instances.list)]]
    /\ UNCHANGED <<instances, witnesses, ciphersuite, session, xof, rngs>>

\* GroupP256.deserialize(data), ScalarField.deserialize(data)
Deserialize ==
    /\ outputs["first"].op = "serialize"
    /\ outputs["second"].op = "none"
    /\ \E out \in {IF instances.cls = "GroupP256"
                   THEN Group_deserialize(outputs["first"].data)
                   ELSE Scalar_deserialize(outputs["first"].data)} :
          outputs' = [outputs EXCEPT !["second"] =
              [op |-> "deserialize", exc |-> out.exc, val |-> out.val]]
    /\ UNCHANGED <<instances, witnesses, ciphersuite, session, xof, rngs>>

NextSerialize == Serialize \/ Deserialize

SpecSerialize == InitSerialize /\ [][NextSerialize]_vars

\* C15: serialization round-trips.  For every group element P, the identity
\* included, GroupP256.deserialize(GroupP256.serialize([P])) returns [P], and
\* for every scalar s in [0, n), ScalarField.deserialize(
\* ScalarField.serialize([s])) returns [s].
C15_RoundTrip ==
    outputs["second"].op = "deserialize"
        => /\ outputs["second"].exc = "None"
           /\ outputs["second"].val = instances.list

C15_Witness ==
    /\ outputs["second"].op = "deserialize"
    /\ instances.cls = "GroupP256"
    /\ ~instances.list[1].is_infinity
    /\ instances.list[1].y % 2 = 1
    /\ outputs["first"].data[1] = 3
    /\ outputs["second"].val = instances.list

----------------------------------------------------------------------------
(* SpecLinear: a compiled LinearMap is applied to scalar vectors a and b,  *)
(* to their sum and to a multiple of a                                     *)

\* the scalars the vectors are made of, and the factors
ScalarPool == {0, 1, 5, order - 1}
Factors == {0, 2, order - 1}

\* the linear maps of the statements offered, and one whose constraints
\* share scalars and name a scalar twice
LinearMaps ==
    {c.statement.linear_map : c \in Cases}
        \cup {add_constraint(
                  add_constraint(
                      LinearMap_set_elements(
                          [LinearMap_new EXCEPT !.num_scalars = 2],
                          <<generator, Point_mul(generator, 5), identity>>),
                      <<0, 1, 0>>, <<0, 1, 1>>),
                  <<1, 0>>, <<2, 0, 1>>)}

InitLinear ==
    /\ instances \in LinearMaps
    /\ \E a \in [1..instances.num_scalars -> ScalarPool],
          b \in [1..instances.num_scalars -> ScalarPool], c \in Factors :
          witnesses = [a |-> a, b |-> b, c |-> c]
    /\ ciphersuite = "none"
    /\ session = [o \in Objects |-> NoSession]
    /\ xof = <<>>
    /\ rngs = [o \in Objects |-> NoRun]
    /\ outputs = [o \in Objects |-> NoOutput]

\* linear_map(a), linear_map(b), linear_map(a + b), linear_map(c * a), on
\* vectors of scalars of the field
Apply ==
    /\ outputs["first"].op = "none"
    /\ outputs' = [outputs EXCEPT !["first"] =
           [op |-> "LinearMap",
            of_a |-> LinearMap_call(instances, witnesses.a),
            of_b |-> LinearMap_call(instances, witnesses.b),
            of_sum |-> LinearMap_call(instances,
                           [i \in 1..instances.num_scalars |->
                               Field_add(witnesses.a[i], witnesses.b[i], order)]),
            of_multiple |-> LinearMap_call(instances,
                           [i \in 1..instances.num_scalars |->
                               Field_mul(witnesses.c, witnesses.a[i], order)])]]
    /\ UNCHANGED <<instances, witnesses, ciphersuite, session, xof, rngs>>

NextLinear == Apply

SpecLinear == InitLinear /\ [][NextLinear]_vars

\* C16: linearity of the compiled map.  For every compiled LinearMap phi
\* with indices in range, scalar vectors a and b of length num_scalars and
\* scalar c, phi(a + b) = phi(a) + phi(b) and phi(c * a) = c * phi(a),
\* component by component.
C16_Linearity ==
    outputs["first"].op = "LinearMap"
        => LET out == outputs["first"]
           IN /\ out.of_a.exc = "None" /\ out.of_b.exc = "None"
              /\ out.of_sum.exc = "None" /\ out.of_multiple.exc = "None"
              /\ Len(out.of_sum.val) = instances.num_constraints
              /\ Len(out.of_multiple.val) = instances.num_constraints
              /\ \A i \in 1..instances.num_constraints :
                     /\ out.of_sum.val[i]
                            = Point_add(out.of_a.val[i], out.of_b.val[i])
                     /\ out.of_multiple.val[i]
                            = Point_mul(out.of_a.val[i], witnesses.c)

C16_Witness ==
    /\ outputs["first"].op = "LinearMap"
    /\ instances.num_scalars = 2
    /\ instances.num_constraints = 2
    /\ witnesses.a = <<5, 1>>
    /\ witnesses.b = <<order - 1, 5>>
    /\ witnesses.c = order - 1
    /\ ~outputs["first"].of_sum.val[1].is_infinity
    /\ ~outputs["first"].of_multiple.val[1].is_infinity
    /\ outputs["first"].of_sum.val[1]
           = Point_add(outputs["first"].of_a.val[1], outputs["first"].of_b.val[1])

----------------------------------------------------------------------------
(* SpecRelation: two LinearRelation objects are built from the same        *)
(* declarations, call by call, and asked for their labels                  *)

\* the calls that declare a statement
DeclareScalars(count) ==
    [call |-> "allocate_scalars", count |-> count, lhs |-> 0,
     terms |-> <<>>, assignments |-> <<>>]
DeclareElements(count) ==
    [call |-> "allocate_elements", count |-> count, lhs |-> 0,
     terms |-> <<>>, assignments |-> <<>>]
DeclareEquation(lhs, terms) ==
    [call |-> "append_equation", count |-> 0, lhs |-> lhs,
     terms |-> terms, assignments |-> <<>>]
DeclareValues(assignments) ==
    [call |-> "set_elements", count |-> 0, lhs |-> 0,
     terms |-> <<>>, assignments |-> assignments]

\* the declarations offered: those of the test statements, a statement
\* declared in another order of calls, the Pedersen statement with the terms
\* of its equation swapped, and a statement whose image has no value
Declarations ==
    LET G == generator
        H == Point_mul(G, 5)
        C == Point_add(Point_mul(G, 2), Point_mul(H, 9))
    IN {<<DeclareScalars(1), DeclareElements(2),
          DeclareEquation(1, << <<0, 0>> >>),
          DeclareValues(<< <<0, G>>, <<1, Point_mul(G, 3)>> >>)>>,
        <<DeclareScalars(1), DeclareElements(2),
          DeclareEquation(1, << <<0, 0>> >>),
          DeclareValues(<< <<0, G>>, <<1, identity>> >>)>>,
        <<DeclareScalars(1), DeclareElements(4),
          DeclareEquation(1, << <<0, 0>> >>),
          DeclareEquation(3, << <<0, 2>> >>),
          DeclareValues(<< <<0, G>>, <<1, Point_mul(G, 7)>>, <<2, H>>,
                           <<3, Point_mul(H, 7)>> >>)>>,
        <<DeclareScalars(2), DeclareElements(3),
          DeclareEquation(2, << <<0, 0>>, <<1, 1>> >>),
          DeclareValues(<< <<0, G>>, <<1, H>>, <<2, C>> >>)>>,
        <<DeclareScalars(2), DeclareElements(3),
          DeclareEquation(2, << <<0, 1>>, <<1, 0>> >>),
          DeclareValues(<< <<0, G>>, <<1, H>>, <<2, C>> >>)>>,
        <<DeclareElements(1), DeclareScalars(1), DeclareElements(1),
          DeclareValues(<< <<1, H>> >>),
          DeclareEquation(1, << <<0, 0>> >>),
          DeclareValues(<< <<0, G>> >>)>>,
        <<DeclareScalars(1), DeclareElements(2),
          DeclareEquation(1, << <<0, 0>> >>),
          DeclareValues(<< <<0, G>> >>)>>}

NoRelation == [phase |-> "building", rel |-> LinearRelation, calls |-> 0]

InitRelation ==
    /\ instances \in Declarations
    /\ witnesses = <<>>
    /\ ciphersuite = "none"
    /\ session = [o \in Objects |-> NoSession]
    /\ xof = <<>>
    /\ rngs = [o \in Objects |-> NoRelation]
    /\ outputs = [o \in Objects |-> NoOutput]

\* the next call of the declarations is one of the kind call
NextCall(o, call) ==
    /\ rngs[o].calls < Len(instances)
    /\ instances[rngs[o].calls + 1].call = call

\* every call of the declarations has been made
Declared(o) == rngs[o].calls = Len(instances)

\* relation.allocate_scalars(count)
AllocateScalars(o) ==
    /\ NextCall(o, "allocate_scalars")
    /\ rngs' = [rngs EXCEPT ![o] =
           [@ EXCEPT !.rel = allocate_scalars(@, instances[rngs[o].calls + 1].count),
                     !.calls = @ + 1]]
    /\ UNCHANGED <<instances, witnesses, ciphersuite, session, xof, outputs>>

\* relation.allocate_elements(count)
AllocateElements(o) ==
    /\ NextCall(o, "allocate_elements")
    /\ rngs' = [rngs EXCEPT ![o] =
           [@ EXCEPT !.rel = allocate_elements(@, instances[rngs[o].calls + 1].count),
                     !.calls = @ + 1]]
    /\ UNCHANGED <<instances, witnesses, ciphersuite, session, xof, outputs>>

\* relation.append_equation(lhs, terms)
AppendEquation(o) ==
    /\ NextCall(o, "append_equation")
    /\ \E out \in {append_equation(rngs[o].rel, instances[rngs[o].calls + 1].lhs,
                                   instances[rngs[o].calls + 1].terms)} :
          /\ out.exc = "None"
          /\ rngs' = [rngs EXCEPT ![o] =
                 [@ EXCEPT !.rel = out.rel, !.calls = @ + 1]]
    /\ UNCHANGED <<instances, witnesses, ciphersuite, session, xof, outputs>>

\* relation.set_elements(assignments)
SetElements(o) ==
    /\ NextCall(o, "set_elements")
    /\ rngs' = [rngs EXCEPT ![o] =
           [@ EXCEPT !.rel = set_elements(@, instances[rngs[o].calls + 1].assignments),
                     !.calls = @ + 1]]
    /\ UNCHANGED <<instances, witnesses, ciphersuite, session, xof, outputs>>

\* relation.get_label()
GetLabel(o) ==
    /\ Declared(o)
    /\ outputs[o].op = "none"
    /\ \E out \in {LinearRelation_get_label(rngs[o].rel)} :
          outputs' = [outputs EXCEPT ![o] =
              [op |-> "get_label", exc |-> out.exc, val |-> out.val]]
    /\ UNCHANGED <<instances, witnesses, ciphersuite, session, xof, rngs>>

\* Instance(group, relation.linear_map, relation.image).get_label()
InstanceGetLabel(o) ==
    /\ Declared(o)
    /\ ~session[o].made
    /\ \E img \in {image(rngs[o].rel)} :
          /\ img.exc = "None"
          /\ session' = [session EXCEPT ![o] =
                 [made |-> TRUE,
                  val |-> Instance_get_label(
                              Instance(rngs[o].rel.linear_map, img.val))]]
    /\ UNCHANGED <<instances, witnesses, ciphersuite, xof, rngs, outputs>>

NextRelation ==
    \/ \E o \in Objects : AllocateScalars(o)
    \/ \E o \in Objects : AllocateElements(o)
    \/ \E o \in Objects : AppendEquation(o)
    \/ \E o \in Objects : SetElements(o)
    \/ \E o \in Objects : GetLabel(o)
    \/ \E o \in Objects : InstanceGetLabel(o)

SpecRelation == InitRelation /\ [][NextRelation]_vars

RECURSIVE CountDeclared(_, _)
\* the variables the calls of kind call declare in all
CountDeclared(declarations, call) ==
    IF declarations = <<>> THEN 0
    ELSE (IF Head(declarations).call = call THEN Head(declarations).count ELSE 0)
           + CountDeclared(Tail(declarations), call)

RECURSIVE ValuesDeclared(_, _)
\* the value each element variable is given last
ValuesDeclared(declarations, values) ==
    IF declarations = <<>> THEN values
    ELSE ValuesDeclared(Tail(declarations),
                        DictUpdate(values, Head(declarations).assignments))

\* the equations declared, in order
EquationsDeclared ==
    SelectSeq(instances, LAMBDA d : d.call = "append_equation")

\* every element variable declared is given a value
FullyAssigned ==
    DOMAIN ValuesDeclared(instances, <<>>)
        = 0..(CountDeclared(instances, "allocate_elements") - 1)

\* the label the declarations call for: SHA-256 of the three counts on 4
\* bytes little-endian, the map elements in order, the image in equation order
LabelDeclared ==
    LET values == ValuesDeclared(instances, <<>>)
        num_elements == CountDeclared(instances, "allocate_elements")
    IN sha256(Lit(
           to_bytes_little(CountDeclared(instances, "allocate_scalars"), 4)
             \o to_bytes_little(num_elements, 4)
             \o to_bytes_little(Len(EquationsDeclared), 4)
             \o Group_serialize([i \in 1..num_elements |-> values[i - 1]])
             \o Group_serialize([k \in 1..Len(EquationsDeclared) |->
                                    values[EquationsDeclared[k].lhs]])))

\* C17: LinearRelation.get_label() of a fully assigned statement is SHA-256
\* of num_scalars, num_elements and num_constraints (each on 4 bytes
\* little-endian), then the serialization of each map group element in
\* order, then that of each image element in equation order; a statement
\* rebuilt from the same declarations has the same label.
C17_StatementLabel ==
    FullyAssigned =>
        /\ \A o \in Objects :
               outputs[o].op = "get_label"
                   => /\ outputs[o].exc = "None"
                      /\ outputs[o].val = LabelDeclared
        /\ (\A o \in Objects : outputs[o].op = "get_label")
               => outputs["first"].val = outputs["second"].val

C17_Witness ==
    /\ FullyAssigned
    /\ Len(EquationsDeclared) = 2
    /\ \A o \in Objects : outputs[o].op = "get_label"
    /\ outputs["first"].val = LabelDeclared
    /\ outputs["first"].val = outputs["second"].val

\* C18: Instance.get_label() digests the same input as the statement label,
\* so for every fully assigned LinearRelation R,
\* Instance(group, R.linear_map, R.image).get_label() = R.get_label().
C18_InstanceLabel ==
    \A o \in Objects :
        (/\ FullyAssigned
         /\ session[o].made
         /\ outputs[o].op = "get_label")
            => /\ outputs[o].exc = "None"
               /\ session[o].val = outputs[o].val

----------------------------------------------------------------------------
(* SpecWire: the bytes of a proof, and a verifier offered the proof cut or *)
(* lengthened                                                              *)

\* the byte a proof is lengthened with
PadByte == 0

\* the lengths of the inputs offered: up to one element more than the
\* longest proof of Cases, of two elements and a scalar
InputLengths == 0..(3 * element_byte_length + scalar_byte_length)

\* the first length bytes of proof, lengthened with PadByte
Resized(proof, length) ==
    [i \in 1..length |-> IF i <= Len(proof) THEN proof[i] ELSE PadByte]

\* NIZK(...).verify(input), input the proof of the other object's prove cut
\* or lengthened to length bytes
VerifyResized(o, from, length) ==
    /\ session[o].made
    /\ Calls < MaxCalls
    /\ outputs[from].op = "prove"
    /\ outputs[from].exc = "None"
    /\ \E octets \in ChallengeOctets :
         \E out \in {verify(session[o].np, Resized(outputs[from].proof, length),
                            octets)} :
            /\ Yields(out.uniform_bytes, octets)
            /\ session' = [session EXCEPT ![o].np.hash_state = out.hash_state,
                                          ![o].calls = @ + 1]
            /\ xof' = Record(out.uniform_bytes, octets)
            /\ outputs' = [outputs EXCEPT ![o] =
                   [op |-> "verify", exc |-> out.exc, accepted |-> out.val,
                    proof |-> Resized(outputs[from].proof, length),
                    split |-> commitment_size(session[o].np),
                    fresh |-> session[o].calls = 0,
                    honest |-> outputs[from].fresh,
                    same_session |-> session[from].session_id = session[o].session_id,
                    challenge |-> out.challenge,
                    prover_challenge |-> outputs[from].challenge,
                    uniform_bytes |-> out.uniform_bytes]]
    /\ UNCHANGED <<instances, witnesses, ciphersuite, rngs>>

NextWire ==
    \/ \E o \in Objects, session_id \in SessionIds : Call(o, session_id)
    \/ \E o \in Objects, seed \in Seeds : Prove(o, seed)
    \/ \E o \in Objects : \E from \in Objects \ {o} :
         \E length \in InputLengths : VerifyResized(o, from, length)

SpecWire == Init /\ [][NextWire]_vars

\* the length of a proof of the statement: one element for each constraint,
\* then one scalar for each scalar variable
ProofLength ==
    element_byte_length * instances[1].linear_map.num_constraints
        + scalar_byte_length * instances[1].linear_map.num_scalars

\* C20: wire format of a single Schnorr proof.  For a statement with c
\* constraints and s scalars, prove returns serialize(commitment) followed
\* by serialize(response), element_byte_length * c + scalar_byte_length * s
\* bytes in all (33 * c + 32 * s for P-256); verify splits every input at
\* byte element_byte_length * c and accepts no input of another length.
C20_WireFormat ==
    \A o \in Objects :
        /\ (outputs[o].op = "prove" /\ outputs[o].exc = "None")
              => LET commit == prover_commit(instances[1], witnesses[1],
                                             TestDRNG(outputs[o].seed))
                     response == prover_response(instances[1], commit.prover_state,
                                                 outputs[o].challenge)
                 IN /\ Len(outputs[o].proof) = ProofLength
                    /\ outputs[o].proof
                           = Group_serialize(commit.commitment)
                               \o Scalar_serialize(response.val)
        /\ outputs[o].op = "verify"
              => /\ outputs[o].split
                        = element_byte_length * instances[1].linear_map.num_constraints
                 /\ Len(outputs[o].proof) # ProofLength
                        => (~outputs[o].accepted /\ outputs[o].exc # "None")

C20_Witness ==
    /\ instances[1].linear_map.num_constraints = 2
    /\ outputs["first"].op = "prove"
    /\ outputs["first"].exc = "None"
    /\ Len(outputs["first"].proof) = ProofLength
    /\ outputs["second"].op = "verify"
    /\ Len(outputs["second"].proof) = ProofLength + scalar_byte_length
    /\ outputs["second"].exc = "AssertionError"
    /\ ~outputs["second"].accepted

----------------------------------------------------------------------------
(* SpecShape: the non-interactive proof of one statement, the prover given *)
(* a witness that is of the length of the statement, shorter or longer     *)

\* the scalar a witness is lengthened with
ExtraScalar == 6

\* the witnesses offered for a case: its own, that without its last scalar,
\* and that with one scalar more
Shapes(witness) ==
    {witness, SubSeq(witness, 1, Len(witness) - 1), Append(witness, ExtraScalar)}

InitShape ==
    /\ \E c \in Cases : \E witness \in Shapes(c.witness) :
          instances = <<c.statement>> /\ witnesses = <<witness>>
    /\ ciphersuite \in Suites
    /\ session = [o \in Objects |-> NoSession]
    /\ xof = <<>>
    /\ rngs = [o \in Objects |-> <<>>]
    /\ outputs = [o \in Objects |-> NoOutput]

SpecShape == InitShape /\ [][Next]_vars

\* C21: witness shape check.  prove (prover_commit, then prover_response)
\* called with a witness whose length differs from num_scalars, shorter or
\* longer, ends in an error and returns no proof.
C21_WitnessShape ==
    \A o \in Objects :
        (/\ outputs[o].op = "prove"
         /\ Len(witnesses[1]) # instances[1].linear_map.num_scalars)
            => /\ outputs[o].exc # "None"
               /\ outputs[o].proof = <<>>

----------------------------------------------------------------------------
(* SpecBuilder: LinearRelation objects built by any sequence of calls of   *)
(* allocate_scalars, allocate_elements, set_elements and append_equation,  *)
(* an append_equation that raised included, then given to the prover       *)

\* calls made on a builder in all
MaxBuild == 4

\* the objects built
Builders == {"first"}

\* the arguments offered to the calls
BuilderCounts == {1, 2}
BuilderAssignments ==
    LET G == generator
        H == Point_mul(generator, 5)
    IN {<< <<0, G>> >>, << <<1, H>> >>, << <<1, G>> >>,
        << <<0, G>>, <<1, H>> >>}
BuilderLhs == {0, 1}
BuilderTerms == {<< <<0, 0>> >>, << <<0, 1>> >>, << <<0, 0>>, <<1, 1>> >>}

\* a relation under construction, the calls made on it and what the last
\* call raised
NoBuilder == [rel |-> LinearRelation, calls |-> 0, exc |-> "None"]

InitBuilder ==
    /\ instances = <<>>
    /\ witnesses = <<>>
    /\ ciphersuite \in Suites
    /\ session = [o \in Objects |-> NoSession]
    /\ xof = <<>>
    /\ rngs = [o \in Objects |-> NoBuilder]
    /\ outputs = [o \in Objects |-> NoOutput]

BuilderCalls == Sum([o \in Builders |-> rngs[o].calls], Builders)

\* the object is still being built
Building(o) == outputs[o].op = "none" /\ BuilderCalls < MaxBuild

\* relation.allocate_scalars(count)
BuilderAllocateScalars(o, count) ==
    /\ Building(o)
    /\ rngs' = [rngs EXCEPT ![o] =
           [rel |-> allocate_scalars(@.rel, count), calls |-> @.calls + 1,
            exc |-> "None"]]
    /\ UNCHANGED <<instances, witnesses, ciphersuite, session, xof, outputs>>

\* relation.allocate_elements(count)
BuilderAllocateElements(o, count) ==
    /\ Building(o)
    /\ rngs' = [rngs EXCEPT ![o] =
           [rel |-> allocate_elements(@.rel, count), calls |-> @.calls + 1,
            exc |-> "None"]]
    /\ UNCHANGED <<instances, witnesses, ciphersuite, session, xof, outputs>>

\* relation.set_elements(assignments)
BuilderSetElements(o, assignments) ==
    /\ Building(o)
    /\ rngs' = [rngs EXCEPT ![o] =
           [rel |-> set_elements(@.rel, assignments), calls |-> @.calls + 1,
            exc |-> "None"]]
    /\ UNCHANGED <<instances, witnesses, ciphersuite, session, xof, outputs>>

\* relation.append_equation(lhs, terms), the caller catching what it raises
BuilderAppendEquation(o, lhs, terms) ==
    /\ Building(o)
    /\ \E out \in {append_equation(rngs[o].rel, lhs, terms)} :
          rngs' = [rngs EXCEPT ![o] =
              [rel |-> out.rel, calls |-> @.calls + 1, exc |-> out.exc]]
    /\ UNCHANGED <<instances, witnesses, ciphersuite, session, xof, outputs>>

\* the witness given for a relation: a scalar for each scalar variable
BuilderWitness(rel) == [i \in 1..rel.linear_map.num_scalars |-> 3]

\* NIZK(session_id, relation).prove(witness, TestDRNG(seed)): what the
\* construction or prove raised, else the proof
BuilderProve(o) ==
    /\ outputs[o].op = "none"
    /\ rngs[o].calls > 0
    /\ \E made \in {FiatShamirNIZK_call(CIPHERSUITE(ciphersuite), <<115>>,
                                         rngs[o].rel)} :
          IF made.exc # "None"
          THEN /\ outputs' = [outputs EXCEPT ![o] =
                      [op |-> "prove", exc |-> made.exc, proof |-> <<>>]]
               /\ UNCHANGED xof
          ELSE \E octets \in ChallengeOctets :
                 \E out \in {prove(made.val, BuilderWitness(rngs[o].rel),
                                   TestDRNG(1), octets)} :
                    /\ Yields(out.uniform_bytes, octets)
                    /\ xof' = Record(out.uniform_bytes, octets)
                    /\ outputs' = [outputs EXCEPT ![o] =
                           [op |-> "prove", exc |-> out.exc, proof |-> out.val]]
    /\ UNCHANGED <<instances, witnesses, ciphersuite, session, rngs>>

NextBuilder ==
    \/ \E o \in Builders, count \in BuilderCounts : BuilderAllocateScalars(o, count)
    \/ \E o \in Builders, count \in BuilderCounts : BuilderAllocateElements(o, count)
    \/ \E o \in Builders, assignments \in BuilderAssignments :
          BuilderSetElements(o, assignments)
    \/ \E o \in Builders, lhs \in BuilderLhs, terms \in BuilderTerms :
          BuilderAppendEquation(o, lhs, terms)
    \/ \E o \in Builders : BuilderProve(o)

SpecBuilder == InitBuilder /\ [][NextBuilder]_vars

\* an equation of the relation names, on its left or right side, an element
\* variable that has no value
ReferencesUnassigned(rel) ==
    \E k \in 1..Len(rel.equations) :
        \/ rel.equations[k][1] \notin DOMAIN rel.element_values
        \/ \E t \in 1..Len(rel.equations[k][2]) :
               rel.equations[k][2][t][2] \notin DOMAIN rel.element_values

\* C22: unassigned element variables are detected.  If an equation of a
\* statement references, on its left or right side, an element variable that
\* has no assigned value, then computing the label or proving ends in an
\* error, the map never being evaluated with another variable's value in
\* the place of the unassigned one.
C22_UnassignedDetected ==
    \A o \in Objects :
        (/\ outputs[o].op = "prove"
         /\ ReferencesUnassigned(rngs[o].rel))
            => outputs[o].exc # "None"

\* C23: LinearMap index invariant.  In every state reachable by any sequence
\* of allocate_scalars, allocate_elements, set_elements and append_equation
\* calls on a LinearRelation, every stored scalar index is below num_scalars
\* and every stored element index is below num_elements.
C23_IndexInvariant ==
    \A o \in Builders :
        \A k \in 1..Len(rngs[o].rel.linear_map.linear_combinations) :
            /\ \A t \in 1..Len(rngs[o].rel.linear_map.linear_combinations[k].scalar_indices) :
                   rngs[o].rel.linear_map.linear_combinations[k].scalar_indices[t]
                       < rngs[o].rel.linear_map.num_scalars
            /\ \A t \in 1..Len(rngs[o].rel.linear_map.linear_combinations[k].element_indices) :
                   rngs[o].rel.linear_map.linear_combinations[k].element_indices[t]
                       < rngs[o].rel.linear_map.num_elements

\* C24: equation-count invariant.  In every reachable state of a
\* LinearRelation, the state left by an append_equation call that raised for
\* a variable id never allocated included, the number of recorded equations
\* equals linear_map.num_constraints and the number of stored linear
\* combinations.
C24_EquationCount ==
    \A o \in Builders :
        /\ Len(rngs[o].rel.equations) = rngs[o].rel.linear_map.num_constraints
        /\ Len(rngs[o].rel.equations)
               = Len(rngs[o].rel.linear_map.linear_combinations)

----------------------------------------------------------------------------
(* SpecDeserialize: bytes, well formed or not, are given to                *)
(* GroupP256.deserialize or to ScalarField.deserialize                     *)

\* the first bytes and the x-coordinates of the blocks offered; an
\* x-coordinate of P256_p or more is reduced by the field
BlockFlags == {0, 2, 3, 4}
BlockCoordinates == 0..(P256_p + 2)

GroupBlocks ==
    {<<flag>> \o to_bytes_big(x, FieldByteLength) :
        flag \in BlockFlags, x \in BlockCoordinates}

\* the blocks that lists of two are made of
ShortBlocks ==
    {<<flag>> \o to_bytes_big(x, FieldByteLength) : flag \in BlockFlags, x \in 0..4}

GroupInputs ==
    {<<>>} \cup GroupBlocks
        \cup {first \o second : first \in ShortBlocks, second \in ShortBlocks}
        \cup {SubSeq(block, 1, n) : block \in ShortBlocks,
                                    n \in 1..(element_byte_length - 1)}
        \cup {block \o <<0>> : block \in ShortBlocks}

\* the scalar blocks offered: in range, and from the order on
ScalarBlocks ==
    {to_bytes_little(v, scalar_byte_length) : v \in 0..(2 * order + 1)}

ScalarInputs ==
    {<<>>} \cup ScalarBlocks
        \cup {to_bytes_little(v, scalar_byte_length)
                  \o to_bytes_little(w, scalar_byte_length) :
                v \in {1, order - 1, order}, w \in {0, order + 1}}
        \cup {SubSeq(to_bytes_little(v, scalar_byte_length), 1, 1) : v \in {1, order}}

InitDeserialize ==
    /\ instances \in {[cls |-> "GroupP256", data |-> data] : data \in GroupInputs}
                       \cup {[cls |-> "ScalarField", data |-> data] :
                                data \in ScalarInputs}
    /\ witnesses = <<>>
    /\ ciphersuite = "none"
    /\ session = [o \in Objects |-> NoSession]
    /\ xof = <<>>
    /\ rngs = [o \in Objects |-> NoRun]
    /\ outputs = [o \in Objects |-> NoOutput]

\* GroupP256.deserialize(data)
GroupDeserialize ==
    /\ instances.cls = "GroupP256"
    /\ outputs["first"].op = "none"
    /\ \E out \in {Group_deserialize(instances.data)} :
          outputs' = [outputs EXCEPT !["first"] =
              [op |-> "deserialize", exc |-> out.exc, val |-> out.val]]
    /\ UNCHANGED <<instances, witnesses, ciphersuite, session, xof, rngs>>

\* ScalarField.deserialize(data)
ScalarDeserialize ==
    /\ instances.cls = "ScalarField"
    /\ outputs["first"].op = "none"
    /\ \E out \in {Scalar_deserialize(instances.data)} :
          outputs' = [outputs EXCEPT !["first"] =
              [op |-> "deserialize", exc |-> out.exc, val |-> out.val]]
    /\ UNCHANGED <<instances, witnesses, ciphersuite, session, xof, rngs>>

NextDeserialize == GroupDeserialize \/ ScalarDeserialize

SpecDeserialize == InitDeserialize /\ [][NextDeserialize]_vars

\* block k (from 0) of data
BlockOf(data, k, length) == Slice(data, k * length, (k + 1) * length)

\* x^3 + ax + b for the x-coordinate a block encodes
CurveCubic(block) ==
    LET x == from_bytes_big(Tail(block)) % P256_p
    IN (x * x * x + P256_a * x + P256_b) % P256_p

\* a residue that is the square of no residue
NonSquare(v) == \A y \in 0..(P256_p - 1) : (y * y) % P256_p # v

\* C25: GroupP256.deserialize raises an error for every input whose length
\* is not a multiple of the element length and for every block with a
\* non-zero first byte whose x-coordinate makes x^3 + a*x + b a non-square;
\* every element it returns is the identity or a point satisfying the curve
\* equation.
C25_GroupDeserializeChecks ==
    (instances.cls = "GroupP256" /\ outputs["first"].op = "deserialize")
        => /\ Len(instances.data) % element_byte_length # 0
                  => outputs["first"].exc # "None"
           /\ (/\ Len(instances.data) % element_byte_length = 0
               /\ \E k \in 0..(Len(instances.data) \div element_byte_length - 1) :
                     /\ BlockOf(instances.data, k, element_byte_length)[1] # 0
                     /\ NonSquare(CurveCubic(
                            BlockOf(instances.data, k, element_byte_length))))
                  => outputs["first"].exc # "None"
           /\ outputs["first"].exc = "None"
                  => \A i \in 1..Len(outputs["first"].val) :
                        \/ outputs["first"].val[i].is_infinity
                        \/ (outputs["first"].val[i].y * outputs["first"].val[i].y)
                               % P256_p
                             = (outputs["first"].val[i].x * outputs["first"].val[i].x
                                    * outputs["first"].val[i].x
                                  + P256_a * outputs["first"].val[i].x + P256_b)
                                 % P256_p

\* a block of a non-square x-coordinate was refused
C25_Witness ==
    /\ instances.cls = "GroupP256"
    /\ outputs["first"].op = "deserialize"
    /\ Len(instances.data) = element_byte_length
    /\ instances.data[1] = 2
    /\ NonSquare(CurveCubic(instances.data))
    /\ outputs["first"].exc = "ValueError"

\* C26: scalar range check.  ScalarField.deserialize reports an error for
\* every scalar block whose little-endian value is not in [0, n), so every
\* accepted scalar encoding is the canonical encoding of the scalar it
\* yields.
C26_ScalarRangeCheck ==
    (instances.cls = "ScalarField" /\ outputs["first"].op = "deserialize")
        => /\ (/\ Len(instances.data) % scalar_byte_length = 0
               /\ \E k \in 0..(Len(instances.data) \div scalar_byte_length - 1) :
                     from_bytes_little(
                         BlockOf(instances.data, k, scalar_byte_length)) >= order)
                  => outputs["first"].exc # "None"
           /\ outputs["first"].exc = "None"
                  => Scalar_serialize(outputs["first"].val) = instances.data

----------------------------------------------------------------------------
(* SpecSessions: two proof sessions, each with its own NonInteractiveProof *)
(* and its own TestDRNG, run prove and then verify statement by statement, *)
(* in any interleaving.  The class attribute GroupP256._identity, which    *)
(* identity() fills in on its first call, is the one object both reach.    *)

\* GroupP256.identity(): cls._identity after the call
GroupP256_identity(cache) == IF cache.is_none THEN Cell(identity) ELSE cache

\* a session that has not begun
NoThread ==
    [pc |-> "new", made |-> FALSE, session_id |-> <<>>, seed |-> 0, np |-> <<>>,
     commit |-> <<>>, vc |-> <<>>, octets |-> <<>>, voctets |-> <<>>,
     commitment |-> <<>>, response |-> <<>>]

InitSessions ==
    /\ \E c \in Cases : instances = <<c.statement>> /\ witnesses = <<c.witness>>
    /\ \E suite \in Suites : ciphersuite = [suite |-> suite, _identity |-> NoneCell]
    /\ session = [o \in Objects |-> NoThread]
    /\ xof = <<>>
    /\ rngs = [o \in Objects |-> <<>>]
    /\ outputs = [o \in Objects |-> NoOutput]

\* nizk = NIZK(session_id, statement); rng = TestDRNG(seed)
SessionMake(o, session_id, seed) ==
    /\ session[o].pc = "new"
    /\ \E made \in {FiatShamirNIZK_call(CIPHERSUITE(ciphersuite.suite), session_id,
                                         instances[1])} :
          /\ made.exc = "None"
          /\ session' = [session EXCEPT ![o] =
                 [@ EXCEPT !.pc = "made", !.made = TRUE, !.session_id = session_id,
                           !.seed = seed, !.np = made.val]]
    /\ rngs' = [rngs EXCEPT ![o] = TestDRNG(seed)]
    /\ UNCHANGED <<instances, witnesses, ciphersuite, xof, outputs>>

\* prove: prover_state, commitment = self.protocol.prover_commit(witness, rng)
\* LinearMap.__call__ asks for group.identity()
SessionCommit(o) ==
    /\ session[o].pc = "made"
    /\ \E commit \in {prover_commit(session[o].np.protocol.instance, witnesses[1],
                                    rngs[o])} :
          /\ session' = [session EXCEPT ![o] =
                 [@ EXCEPT !.pc = "committed", !.commit = commit]]
          /\ rngs' = [rngs EXCEPT ![o] = commit.rng]
    /\ ciphersuite' = [ciphersuite EXCEPT
                          !._identity = GroupP256_identity(@)]
    /\ UNCHANGED <<instances, witnesses, xof, outputs>>

\* prove: self.codec.prover_message(self.hash_state, commitment)
SessionMessage(o) ==
    /\ session[o].pc = "committed"
    /\ session[o].commit.exc = "None"
    /\ session' = [session EXCEPT ![o] =
           [@ EXCEPT !.pc = "absorbed",
                     !.np.hash_state = prover_message(@, session[o].commit.commitment)]]
    /\ UNCHANGED <<instances, witnesses, ciphersuite, xof, rngs, outputs>>

\* prove: challenge = self.codec.verifier_challenge(self.hash_state)
SessionChallenge(o) ==
    /\ session[o].pc = "absorbed"
    /\ \E octets \in ChallengeOctets :
         \E vc \in {verifier_challenge(session[o].np.hash_state, octets)} :
            /\ Yields(vc.uniform_bytes, octets)
            /\ xof' = Record(vc.uniform_bytes, octets)
            /\ session' = [session EXCEPT ![o] =
                   [@ EXCEPT !.pc = "challenged", !.np.hash_state = vc.hash_state,
                             !.vc = vc, !.octets = octets]]
    /\ UNCHANGED <<instances, witnesses, ciphersuite, rngs, outputs>>

\* prove: response = self.protocol.prover_response(prover_state, challenge),
\* the serialization of the proof, and return
SessionRespond(o) ==
    /\ session[o].pc = "challenged"
    /\ \E out \in {prove_respond(session[o].np, session[o].commit, session[o].vc)} :
          outputs' = [outputs EXCEPT ![o] =
              [op |-> "prove", exc |-> out.exc, proof |-> out.val,
               challenge |-> out.challenge,
               accepted |-> FALSE, verdict |-> "none"]]
    /\ session' = [session EXCEPT ![o].pc = "proved"]
    /\ UNCHANGED <<instances, witnesses, ciphersuite, xof, rngs>>

\* NIZK(session_id, statement).verify(proof) up to the deserializations:
\* a new NonInteractiveProof, commitment_size (which asks for
\* Image.identity()), then deserialize_commitment and deserialize_response
SessionParse(o) ==
    /\ session[o].pc = "proved"
    /\ outputs[o].exc = "None"
    /\ \E made \in {FiatShamirNIZK_call(CIPHERSUITE(ciphersuite.suite),
                                         session[o].session_id, instances[1])} :
        \E size \in {commitment_size(made.val)} :
          session' = [session EXCEPT ![o] =
              [@ EXCEPT !.pc = "parsed", !.np = made.val,
                        !.commitment =
                            deserialize_commitment(Slice(outputs[o].proof, 0, size)),
                        !.response =
                            deserialize_response(
                                Slice(outputs[o].proof, size, Len(outputs[o].proof)))]]
    /\ ciphersuite' = [ciphersuite EXCEPT
                          !._identity = GroupP256_identity(@)]
    /\ UNCHANGED <<instances, witnesses, xof, rngs, outputs>>

\* verify: self.codec.prover_message(self.hash_state, commitment)
SessionVerifyMessage(o) ==
    /\ session[o].pc = "parsed"
    /\ session[o].commitment.exc = "None"
    /\ session[o].response.exc = "None"
    /\ session' = [session EXCEPT ![o] =
           [@ EXCEPT !.pc = "vabsorbed",
                     !.np.hash_state = prover_message(@, session[o].commitment.val)]]
    /\ UNCHANGED <<instances, witnesses, ciphersuite, xof, rngs, outputs>>

\* verify: challenge = self.codec.verifier_challenge(self.hash_state)
SessionVerifyChallenge(o) ==
    /\ session[o].pc = "vabsorbed"
    /\ \E octets \in ChallengeOctets :
         \E vc \in {verifier_challenge(session[o].np.hash_state, octets)} :
            /\ Yields(vc.uniform_bytes, octets)
            /\ xof' = Record(vc.uniform_bytes, octets)
            /\ session' = [session EXCEPT ![o] =
                   [@ EXCEPT !.pc = "vchallenged", !.np.hash_state = vc.hash_state,
                             !.vc = vc, !.voctets = octets]]
    /\ UNCHANGED <<instances, witnesses, ciphersuite, rngs, outputs>>

\* verify: return self.protocol.verifier(commitment, challenge, response)
SessionVerdict(o) ==
    /\ session[o].pc = "vchallenged"
    /\ \E out \in {verify_challenge(session[o].np, session[o].commitment.val,
                                    session[o].response.val, session[o].vc)} :
          outputs' = [outputs EXCEPT ![o] =
              [@ EXCEPT !.op = "verify", !.accepted = out.val, !.verdict = out.exc]]
    /\ session' = [session EXCEPT ![o].pc = "done"]
    /\ ciphersuite' = [ciphersuite EXCEPT
                          !._identity = GroupP256_identity(@)]
    /\ UNCHANGED <<instances, witnesses, xof, rngs>>

NextSessions ==
    \/ \E o \in Objects, session_id \in SessionIds, seed \in Seeds :
          SessionMake(o, session_id, seed)
    \/ \E o \in Objects : SessionCommit(o)
    \/ \E o \in Objects : SessionMessage(o)
    \/ \E o \in Objects : SessionChallenge(o)
    \/ \E o \in Objects : SessionRespond(o)
    \/ \E o \in Objects : SessionParse(o)
    \/ \E o \in Objects : SessionVerifyMessage(o)
    \/ \E o \in Objects : SessionVerifyChallenge(o)
    \/ \E o \in Objects : SessionVerdict(o)

SpecSessions == InitSessions /\ [][NextSessions]_vars

\* the NonInteractiveProof a session holds when it is made
FreshNp(o) ==
    FiatShamirNIZK_call(CIPHERSUITE(ciphersuite.suite), session[o].session_id,
                        instances[1]).val

\* what prove returns to a session that runs alone
ProveAlone(o) ==
    prove(FreshNp(o), witnesses[1], TestDRNG(session[o].seed), session[o].octets)

\* what verify returns to a session that runs alone
VerifyAlone(o) == verify(FreshNp(o), outputs[o].proof, session[o].voctets)

\* each session has got what it gets when it runs alone
AsAlone ==
    \A o \in Objects :
        /\ outputs[o].op \in {"prove", "verify"}
               => /\ outputs[o].exc = ProveAlone(o).exc
                  /\ outputs[o].proof = ProveAlone(o).val
        /\ outputs[o].op = "verify"
               => /\ outputs[o].verdict = VerifyAlone(o).exc
                  /\ outputs[o].accepted = VerifyAlone(o).val

\* a step of a session leaves alone what the other session holds
OwnState ==
    \A o \in Objects :
        session'[o] # session[o]
            => \A other \in Objects \ {o} :
                  /\ session'[other] = session[other]
                  /\ rngs'[other] = rngs[other]
                  /\ outputs'[other] = outputs[other]

\* C27: independence of proof sessions.  When two proof sessions, each with
\* its own NonInteractiveProof and its own RNG, run their prove and verify
\* steps in any interleaving, each session returns the same proof bytes or
\* verify result as when it runs alone; no step of one session changes
\* state read by the other.
C27_SessionsIndependent ==
    /\ []AsAlone
    /\ [][OwnState /\ ciphersuite' = ciphersuite]_vars

\* C27 as the code has it: each session returns what it returns alone, and
\* a step of one session changes nothing the other holds; the one state a
\* step writes and the other session reads is GroupP256._identity, which the
\* first call of identity() sets, once, to the identity element.
C27_SessionsIndependentButCache ==
    /\ []AsAlone
    /\ [][/\ OwnState
          /\ ciphersuite' # ciphersuite
                => /\ ciphersuite.suite = ciphersuite'.suite
                   /\ ciphersuite._identity = NoneCell
                   /\ ciphersuite'._identity = Cell(identity)]_vars

\* both sessions, of different session identifiers and seeds, have proved
\* and verified
C27_Witness ==
    /\ \A o \in Objects : outputs[o].op = "verify" /\ outputs[o].accepted
    /\ session["first"].session_id # session["second"].session_id
    /\ session["first"].seed # session["second"].seed
    /\ outputs["first"].proof # outputs["second"].proof
    /\ ciphersuite._identity = Cell(identity)

\* the hash_state of a proving session before its verifier_challenge
BeforeChallenge(o) ==
    prover_message(FreshNp(o).hash_state, session[o].commit.commitment)

RECURSIVE BigEndian(_, _)
\* the integer a byte string reads as, most significant byte first
BigEndian(octets, acc) ==
    IF octets = <<>> THEN acc
    ELSE BigEndian(Tail(octets), 256 * acc + Head(octets))

\* C28: ByteSchnorrCodec.verifier_challenge performs exactly one squeeze of
\* scalar_byte_length + 16 bytes and returns that output read as a
\* big-endian integer reduced modulo the group order n, so the challenge
\* always lies in [0, n).
C28_VerifierChallenge ==
    \A o \in Objects :
        session[o].pc = "challenged"
            => /\ BLen(session[o].vc.uniform_bytes) = scalar_byte_length + 16
               /\ Len(session[o].octets) = scalar_byte_length + 16
               /\ session[o].vc.uniform_bytes
                      = squeeze(BeforeChallenge(o), scalar_byte_length + 16).output
               /\ session[o].np.hash_state
                      = squeeze(BeforeChallenge(o), scalar_byte_length + 16).sponge
               /\ session[o].vc.challenge = BigEndian(session[o].octets, 0) % order
               /\ session[o].vc.challenge \in 0..(order - 1)

\* the hash function has yielded bytes that read as an integer above the
\* order, and the challenge is that integer reduced
C28_Witness ==
    /\ session["first"].pc = "challenged"
    /\ BigEndian(session["first"].octets, 0) = order + 5
    /\ session["first"].vc.challenge = 5

----------------------------------------------------------------------------
(* SpecCodec: two codecs are each asked for the initial state of a session *)
(* identifier and an instance label                                        *)

\* the byte strings offered as session identifier and as label: the short
\* strings over two byte values, and strings of the greatest length a prefix
\* can state, of one byte more and of two bytes more
ShortStrings ==
    {<<>>} \cup {<<a>> : a \in {0, 1}} \cup {<<a, b>> : a \in {0, 1}, b \in {0, 1}}
LongStrings ==
    {Repeat(0, 256 ^ LengthPrefix - 1 + extra) : extra \in 0..2}
CodecStrings == ShortStrings \cup LongStrings

\* the labels offered, transcript strings: the short strings, and hash
\* outputs of the lengths of the long strings
CodecLabels ==
    {Lit(bytes) : bytes \in ShortStrings}
        \cup {Run("shake_128", Lit(<<>>), 0, 256 ^ LengthPrefix - 1 + extra) :
                extra \in 0..2}

InitCodec ==
    /\ instances = <<>>
    /\ witnesses = <<>>
    /\ ciphersuite = "none"
    /\ session = [o \in Objects |-> NoSession]
    /\ xof = <<>>
    /\ rngs = [o \in Objects |-> <<>>]
    /\ outputs = [o \in Objects |-> NoOutput]

\* P256Codec().init(session_id, instance_label)
CodecInit(o, session_id, instance_label) ==
    /\ outputs[o].op = "none"
    /\ \E out \in {Codec_init(session_id, instance_label)} :
          outputs' = [outputs EXCEPT ![o] =
              [op |-> "init", session_id |-> session_id,
               instance_label |-> instance_label,
               exc |-> out.exc, val |-> out.val]]
    /\ UNCHANGED <<instances, witnesses, ciphersuite, session, xof, rngs>>

NextCodec ==
    \E o \in Objects, session_id \in CodecStrings, instance_label \in CodecLabels :
        CodecInit(o, session_id, instance_label)

SpecCodec == InitCodec /\ [][NextCodec]_vars

\* a length in LengthPrefix octets, most significant first
LengthOctets(length) ==
    [i \in 1..LengthPrefix |-> (length \div (256 ^ (LengthPrefix - i))) % 256]

\* C29: Codec.init(session_id, label) returns the big-endian length of
\* session_id on LengthPrefix octets, session_id, the big-endian length of
\* label on LengthPrefix octets, then label; distinct (session_id, label)
\* pairs therefore give distinct init strings, and a session_id or label of
\* 256^LengthPrefix bytes or more raises an error instead of producing a
\* prefix.
C29_CodecInit ==
    /\ \A o \in Objects :
           outputs[o].op = "init"
               => IF \/ Len(outputs[o].session_id) >= 256 ^ LengthPrefix
                     \/ BLen(outputs[o].instance_label) >= 256 ^ LengthPrefix
                  THEN outputs[o].exc # "None"
                  ELSE /\ outputs[o].exc = "None"
                       /\ outputs[o].val
                              = Lit(LengthOctets(Len(outputs[o].session_id))
                                      \o outputs[o].session_id
                                      \o LengthOctets(
                                             BLen(outputs[o].instance_label)))
                                  \o outputs[o].instance_label
    /\ (/\ \A o \in Objects : outputs[o].op = "init" /\ outputs[o].exc = "None"
        /\ outputs["first"].val = outputs["second"].val)
           => /\ outputs["first"].session_id = outputs["second"].session_id
              /\ outputs["first"].instance_label = outputs["second"].instance_label

\* a string of the greatest length a prefix can state was taken, and one of
\* a byte more was refused
C29_Witness ==
    /\ outputs["first"].op = "init" /\ outputs["second"].op = "init"
    /\ Len(outputs["first"].session_id) = 256 ^ LengthPrefix - 1
    /\ outputs["first"].exc = "None"
    /\ BLen(outputs["second"].instance_label) = 256 ^ LengthPrefix
    /\ outputs["second"].exc = "ValueError"

----------------------------------------------------------------------------
(* SpecAndWire: the commitments or the responses of an AndProof over two   *)
(* sub-statements are serialized, and the bytes, whole, cut or lengthened, *)
(* are deserialized                                                        *)

\* the elements and scalars the lists are made of
WireElements == {identity, generator, Point_mul(generator, 2)}
WireScalars == {0, 1, order - 1}

\* the lists of count entries of a pool
ListsOf(pool, count) == [1..count -> pool]

\* the commitments of the shapes of the sub-statements, and the responses
WireCommitments ==
    {<<first, second>> :
        first \in ListsOf(WireElements, instances[1].linear_map.num_constraints),
        second \in ListsOf(WireElements, instances[2].linear_map.num_constraints)}
WireResponses ==
    {<<first, second>> :
        first \in ListsOf(WireScalars, instances[1].linear_map.num_scalars),
        second \in ListsOf(WireScalars, instances[2].linear_map.num_scalars)}

InitAndWire ==
    /\ \E cases \in [1..SubStatements -> Cases] :
         /\ instances = [i \in 1..SubStatements |-> cases[i].statement]
         /\ witnesses = [i \in 1..SubStatements |-> cases[i].witness]
    /\ ciphersuite = "none"
    /\ session = [o \in Objects |-> NoSession]
    /\ xof = <<>>
    /\ rngs = [o \in Objects |-> NoRun]
    /\ outputs = [o \in Objects |-> NoOutput]

\* AndProof(instances).serialize_commitment(commitments)
AndSerializeCommitment ==
    /\ outputs["first"].op = "none"
    /\ \E commitments \in WireCommitments :
          outputs' = [outputs EXCEPT !["first"] =
              [op |-> "serialize_commitment", list |-> commitments,
               data |-> And_serialize_commitment(AndProof(instances),
                                                 commitments)]]
    /\ UNCHANGED <<instances, witnesses, ciphersuite, session, xof, rngs>>

\* AndProof(instances).serialize_response(responses)
AndSerializeResponse ==
    /\ outputs["first"].op = "none"
    /\ \E responses \in WireResponses :
          outputs' = [outputs EXCEPT !["first"] =
              [op |-> "serialize_response", list |-> responses,
               data |-> And_serialize_response(AndProof(instances), responses)]]
    /\ UNCHANGED <<instances, witnesses, ciphersuite, session, xof, rngs>>

\* the lengths offered: up to one element more than the serialization
WireLengths == 0..(Len(outputs["first"].data) + element_byte_length)

\* AndProof(instances).deserialize_commitment(data), data the serialization
\* cut or lengthened to length bytes
AndDeserializeCommitment ==
    /\ outputs["first"].op = "serialize_commitment"
    /\ outputs["second"].op = "none"
    /\ \E length \in WireLengths :
         \E out \in {And_deserialize_commitment(
                        AndProof(instances),
                        Resized(outputs["first"].data, length))} :
            outputs' = [outputs EXCEPT !["second"] =
                [op |-> "deserialize", length |-> length,
                 exc |-> out.exc, val |-> out.val]]
    /\ UNCHANGED <<instances, witnesses, ciphersuite, session, xof, rngs>>

\* AndProof(instances).deserialize_response(data)
AndDeserializeResponse ==
    /\ outputs["first"].op = "serialize_response"
    /\ outputs["second"].op = "none"
    /\ \E length \in WireLengths :
         \E out \in {And_deserialize_response(
                        AndProof(instances),
                        Resized(outputs["first"].data, length))} :
            outputs' = [outputs EXCEPT !["second"] =
                [op |-> "deserialize", length |-> length,
                 exc |-> out.exc, val |-> out.val]]
    /\ UNCHANGED <<instances, witnesses, ciphersuite, session, xof, rngs>>

NextAndWire ==
    \/ AndSerializeCommitment
    \/ AndSerializeResponse
    \/ AndDeserializeCommitment
    \/ AndDeserializeResponse

SpecAndWire == InitAndWire /\ [][NextAndWire]_vars

\* the bytes the lists serialized call for: the encodings of the first
\* sub-statement's list, then those of the second's
WireBytes ==
    IF outputs["first"].op = "serialize_commitment"
    THEN SerializeEach(outputs["first"].list[1])
           \o SerializeEach(outputs["first"].list[2])
    ELSE Join([i \in 1..Len(outputs["first"].list[1]) |->
                  to_bytes_little(outputs["first"].list[1][i], scalar_byte_length)])
           \o Join([i \in 1..Len(outputs["first"].list[2]) |->
                       to_bytes_little(outputs["first"].list[2][i],
                                       scalar_byte_length)])

\* the length the shapes of the sub-statements call for
WireLength ==
    IF outputs["first"].op = "serialize_commitment"
    THEN element_byte_length * (instances[1].linear_map.num_constraints
                                  + instances[2].linear_map.num_constraints)
    ELSE scalar_byte_length * (instances[1].linear_map.num_scalars
                                 + instances[2].linear_map.num_scalars)

\* the serialization is the sub-encodings in declaration order and the
\* bytes, whole, deserialize to the lists serialized
AndRoundTrip ==
    /\ outputs["first"].op # "none"
           => /\ outputs["first"].data = WireBytes
              /\ Len(outputs["first"].data) = WireLength
    /\ (outputs["second"].op = "deserialize"
            /\ outputs["second"].length = WireLength)
           => /\ outputs["second"].exc = "None"
              /\ outputs["second"].val = outputs["first"].list

\* C30: AND serialization round-trip.  AndProof.serialize_commitment and
\* serialize_response concatenate the sub-encodings in declaration order;
\* deserialize_commitment(serialize_commitment(Ts)) = Ts and
\* deserialize_response(serialize_response(zs)) = zs for every list of
\* per-sub-statement commitments of lengths c_i and responses of lengths
\* s_i; an input shorter or longer than the sum of the sub-encodings'
\* lengths is not silently accepted.
C30_AndRoundTrip ==
    /\ AndRoundTrip
    /\ (outputs["second"].op = "deserialize"
            /\ outputs["second"].length # WireLength)
           => outputs["second"].exc # "None"

----------------------------------------------------------------------------
(* The order of the transcript in the sessions of SpecSessions             *)

\* what a session's sponge holds, in the order it was entered
Absorbed(o) ==
    session[o].np.hash_state.state \o session[o].np.hash_state.buffer

\* Codec.init(session_id, label) of a session, then its commitment
\* serialized
InitThenCommitment(o, commitment) ==
    Lit(LengthOctets(Len(session[o].session_id)) \o session[o].session_id
          \o LengthOctets(DigestSize))
      \o LinearRelation_get_label(instances[1]).val
      \o Lit(SerializeEach(commitment))

\* at the squeeze of prove and at that of verify the sponge holds the init
\* bytes and the commitment, and the bytes squeezed are the hash of these;
\* the verifier's challenge is the prover's
TranscriptInOrder ==
    \A o \in Objects :
        /\ session[o].pc = "absorbed"
               => Absorbed(o) = InitThenCommitment(o, session[o].commit.commitment)
        /\ session[o].pc = "challenged"
               => session[o].vc.uniform_bytes[1].input
                      = InitThenCommitment(o, session[o].commit.commitment)
        /\ session[o].pc = "vabsorbed"
               => /\ Absorbed(o) = InitThenCommitment(o, session[o].commitment.val)
                  /\ session[o].commitment.val = session[o].commit.commitment
        /\ session[o].pc \in {"vchallenged", "done"}
               => /\ session[o].vc.uniform_bytes[1].input
                         = InitThenCommitment(o, session[o].commit.commitment)
                  /\ session[o].voctets = session[o].octets
                  /\ session[o].vc.challenge = outputs[o].challenge

\* the response is computed after the squeeze, from the challenge squeezed
ResponseAfterSqueeze ==
    \A o \in Objects :
        (outputs[o].op = "none" /\ outputs'[o].op = "prove")
            => /\ session[o].pc = "challenged"
               /\ outputs'[o].challenge = session[o].vc.challenge
               /\ outputs'[o].proof
                      = SerializeEach(session[o].commit.commitment)
                          \o Scalar_serialize(
                                 [i \in 1..Len(witnesses[1]) |->
                                     (session[o].commit.prover_state.nonces[i]
                                        + witnesses[1][i] * session[o].vc.challenge)
                                       % order])

\* C31: transcript order on a freshly built NonInteractiveProof.  In prove
\* and in verify, at the moment the challenge is squeezed the sponge has
\* absorbed exactly Codec.init(session_id, label) followed by the serialized
\* commitment, in that order, and in prove the response is computed only
\* after that squeeze; prover and verifier therefore squeeze the same
\* challenge for the same (session_id, statement, commitment).
C31_TranscriptOrder ==
    /\ []TranscriptInOrder
    /\ [][ResponseAfterSqueeze]_vars

\* a verifier has squeezed the challenge its prover squeezed, one reduced
\* modulo the order
C31_Witness ==
    /\ session["first"].pc = "vchallenged"
    /\ session["first"].vc.challenge = 5
    /\ outputs["first"].challenge = 5
    /\ Len(session["first"].commit.commitment) = 2

----------------------------------------------------------------------------
(* SpecRepeat: prove and verify are called again and again on the same     *)
(* NonInteractiveProof objects; rngs keeps, per object, the calls made on  *)
(* it and what each returned                                               *)

\* calls of prove and verify made in all
MaxRepeat == 3

\* the statements offered, of one constraint and of two, and the session
\* identifier of every object
RepeatCases == {discrete_logarithm(3), dleq(5, 7)}
RepeatSession == <<115>>

InitRepeat ==
    /\ \E c \in RepeatCases : instances = <<c.statement>> /\ witnesses = <<c.witness>>
    /\ ciphersuite \in Suites
    /\ session = [o \in Objects |-> NoSession]
    /\ xof = <<>>
    /\ rngs = [o \in Objects |-> <<>>]
    /\ outputs = [o \in Objects |-> NoOutput]

\* nizk = NIZK(session_id, statement)
RepeatCall(o) ==
    /\ ~session[o].made
    /\ \E made \in {FiatShamirNIZK_call(CIPHERSUITE(ciphersuite), RepeatSession,
                                         instances[1])} :
          /\ made.exc = "None"
          /\ session' = [session EXCEPT ![o] =
                 [made |-> TRUE, session_id |-> RepeatSession, np |-> made.val,
                  calls |-> 0]]
    /\ UNCHANGED <<instances, witnesses, ciphersuite, xof, rngs, outputs>>

\* nizk.prove(witness, TestDRNG(seed)), nizk an object that may have been
\* called before
RepeatProve(o, seed) ==
    /\ session[o].made
    /\ Calls < MaxRepeat
    /\ \E octets \in ChallengeOctets :
         \E out \in {prove(session[o].np, witnesses[1], TestDRNG(seed), octets)} :
            /\ Yields(out.uniform_bytes, octets)
            /\ session' = [session EXCEPT ![o].np.hash_state = out.hash_state,
                                          ![o].calls = @ + 1]
            /\ xof' = Record(out.uniform_bytes, octets)
            /\ rngs' = [rngs EXCEPT ![o] =
                   Append(@, [op |-> "prove", exc |-> out.exc, proof |-> out.val,
                              accepted |-> FALSE,
                              uniform_bytes |-> out.uniform_bytes])]
            /\ outputs' = [outputs EXCEPT ![o] =
                   [op |-> "prove", exc |-> out.exc, proof |-> out.val]]
    /\ UNCHANGED <<instances, witnesses, ciphersuite>>

\* nizk.verify(proof), proof the bytes the last prove of an object returned
RepeatVerify(o, from) ==
    /\ session[o].made
    /\ Calls < MaxRepeat
    /\ outputs[from].op = "prove"
    /\ outputs[from].exc = "None"
    /\ \E octets \in ChallengeOctets :
         \E out \in {verify(session[o].np, outputs[from].proof, octets)} :
            /\ Yields(out.uniform_bytes, octets)
            /\ session' = [session EXCEPT ![o].np.hash_state = out.hash_state,
                                          ![o].calls = @ + 1]
            /\ xof' = Record(out.uniform_bytes, octets)
            /\ rngs' = [rngs EXCEPT ![o] =
                   Append(@, [op |-> "verify", exc |-> out.exc,
                              proof |-> outputs[from].proof,
                              accepted |-> out.val,
                              uniform_bytes |-> out.uniform_bytes])]
    /\ UNCHANGED <<instances, witnesses, ciphersuite, outputs>>

NextRepeat ==
    \/ \E o \in Objects : RepeatCall(o)
    \/ \E o \in Objects, seed \in Seeds : RepeatProve(o, seed)
    \/ \E o \in Objects, from \in Objects : RepeatVerify(o, from)

SpecRepeat == InitRepeat /\ [][NextRepeat]_vars

\* the bytes of Codec.init for an object of SpecRepeat
InitBytes ==
    Lit(LengthOctets(Len(RepeatSession)) \o RepeatSession
          \o LengthOctets(DigestSize))
      \o LinearRelation_get_label(instances[1]).val

\* the serialized commitment a call was about: the head of its proof
CommitmentOf(call) ==
    Lit(SubSeq(call.proof, 1,
               element_byte_length * instances[1].linear_map.num_constraints))

\* the bytes a call's challenge was squeezed from
SqueezedFrom(call) == call.uniform_bytes[1].input

\* what a sponge holds after a squeeze from transcript that returned output
Ratchet(transcript, output) ==
    IF CIPHERSUITE(ciphersuite).Sponge = "Keccak256DuplexSponge"
    THEN sha3_256(transcript \o output)
    ELSE transcript \o output

RECURSIVE CarriedTranscript(_, _)
\* the transcript of call k of an object that carries its sponge from call
\* to call
CarriedTranscript(o, k) ==
    IF k = 1 THEN InitBytes \o CommitmentOf(rngs[o][1])
    ELSE Ratchet(CarriedTranscript(o, k - 1), rngs[o][k - 1].uniform_bytes)
           \o CommitmentOf(rngs[o][k])

\* C32: repeatability on one object.  For any sequence of prove and verify
\* calls on the same NonInteractiveProof object, every call squeezes its
\* challenge from a transcript consisting only of the init bytes and that
\* call's commitment, so verify(proof) called a second time on the same
\* object gives the same result as the first call.
C32_Repeatable ==
    \A o \in Objects :
        /\ \A k \in 1..Len(rngs[o]) :
               SqueezedFrom(rngs[o][k]) = InitBytes \o CommitmentOf(rngs[o][k])
        /\ \A j \in 1..Len(rngs[o]) : \A k \in (j + 1)..Len(rngs[o]) :
               (/\ rngs[o][j].op = "verify" /\ rngs[o][k].op = "verify"
                /\ rngs[o][j].proof = rngs[o][k].proof)
                   => /\ rngs[o][j].exc = rngs[o][k].exc
                      /\ rngs[o][j].accepted = rngs[o][k].accepted

\* C32 as the code has it: a NonInteractiveProof object is for one call.
\* The first call on an object squeezes from the init bytes and its
\* commitment; every later call squeezes from what the sponge was left
\* holding by the calls before it (their commitments and the bytes they
\* squeezed) followed by its own commitment, so a second verify(proof) on
\* the same object squeezes other bytes than the first.
C32_SingleUse ==
    \A o \in Objects :
        /\ \A k \in 1..Len(rngs[o]) :
               /\ SqueezedFrom(rngs[o][k]) = CarriedTranscript(o, k)
               /\ k > 1 => SqueezedFrom(rngs[o][k])
                               # InitBytes \o CommitmentOf(rngs[o][k])
        /\ \A j \in 1..Len(rngs[o]) : \A k \in (j + 1)..Len(rngs[o]) :
               rngs[o][j].uniform_bytes # rngs[o][k].uniform_bytes

\* a proof the first verify of an object accepted was refused by the second
C32_Witness ==
    \E o \in Objects :
        /\ Len(rngs[o]) = 2
        /\ rngs[o][1].op = "verify" /\ rngs[o][2].op = "verify"
        /\ rngs[o][1].proof = rngs[o][2].proof
        /\ rngs[o][1].accepted
        /\ rngs[o][2].exc = "AssertionError"

----------------------------------------------------------------------------
(* SpecSimulate: SchnorrProof.simulate_response and simulate_commitment    *)

\* EllipticCurvePoint - EllipticCurvePoint: the class defines __add__,
\* __mul__, __rmul__, __neg__ and __eq__ and no __sub__
Point_sub(P, Q) == Raise("TypeError")

\* SchnorrProof.simulate_commitment(response, challenge): h_c_values is
\* built first (image is read once per constraint), then each component
\* evaluates linear_map(response)[i] and subtracts
simulate_commitment(instance, response, challenge) ==
    IF instance.linear_map.num_constraints = 0 THEN Ok(<<>>)
    ELSE LET img == image(instance)
             mapped == LinearMap_call(instance.linear_map, response)
         IN IF img.exc # "None" THEN Raise(img.exc)
            ELSE IF mapped.exc # "None" THEN Raise(mapped.exc)
            ELSE Point_sub(mapped.val[1], Point_mul(img.val[1], challenge))

\* a relation of one scalar and no equation
unconstrained(x) ==
    [statement |-> allocate_scalars(LinearRelation, 1), witness |-> <<x>>]

SimulateCases ==
    {discrete_logarithm(3), dleq(5, 7), pedersen_commitment(5, 2, 9),
     unconstrained(3)}

InitSimulate ==
    /\ \E c \in SimulateCases :
          instances = <<c.statement>> /\ witnesses = <<c.witness>>
    /\ ciphersuite = "none"
    /\ session = [o \in Objects |-> NoSession]
    /\ xof = <<>>
    /\ rngs = [o \in Objects |-> <<>>]
    /\ outputs = [o \in Objects |-> NoOutput]

\* response = protocol.simulate_response(TestDRNG(seed))
SimulateResponse(o, seed) ==
    /\ outputs[o].op = "none"
    /\ \E sim \in {simulate_response(instances[1], TestDRNG(seed))} :
          outputs' = [outputs EXCEPT ![o] =
              [op |-> "response", exc |-> sim.exc, response |-> sim.val]]
    /\ UNCHANGED <<instances, witnesses, ciphersuite, session, xof, rngs>>

\* the responses handed to simulate_commitment: the simulated one, or any
\* vector of num_scalars scalars
SimulatedResponses(o) ==
    IF outputs[o].op = "response" THEN {outputs[o].response}
    ELSE [1..instances[1].linear_map.num_scalars -> ResponsePool]

\* commitment = protocol.simulate_commitment(response, challenge)
SimulateCommitment(o, challenge) ==
    /\ outputs[o].op \in {"none", "response"}
    /\ \E response \in SimulatedResponses(o) :
       \E sim \in {simulate_commitment(instances[1], response, challenge)} :
          outputs' = [outputs EXCEPT ![o] =
              [op |-> "commitment", exc |-> sim.exc, response |-> response,
               challenge |-> challenge, commitment |-> sim.val]]
    /\ UNCHANGED <<instances, witnesses, ciphersuite, session, xof, rngs>>

\* protocol.verifier(commitment, challenge, response) on what
\* simulate_commitment returned
SimulateVerifier(o) ==
    /\ outputs[o].op = "commitment"
    /\ outputs[o].exc = "None"
    /\ \E verdict \in {verifier(instances[1], outputs[o].commitment,
                                outputs[o].challenge, outputs[o].response)} :
          outputs' = [outputs EXCEPT ![o] =
              [@ EXCEPT !.op = "verifier", !.exc = verdict.exc]]
    /\ UNCHANGED <<instances, witnesses, ciphersuite, session, xof, rngs>>

NextSimulate ==
    \/ \E o \in Objects, seed \in Seeds : SimulateResponse(o, seed)
    \/ \E o \in Objects, challenge \in ChallengePool : SimulateCommitment(o, challenge)
    \/ \E o \in Objects : SimulateVerifier(o)

SpecSimulate == InitSimulate /\ [][NextSimulate]_vars

\* phi(z)[i] - e * x[i] for every constraint i
SimulatedCommitment(instance, response, challenge) ==
    [i \in 1..instance.linear_map.num_constraints |->
        Point_add(LinearMap_call(instance.linear_map, response).val[i],
                  Point_neg(Point_mul(image(instance).val[i], challenge)))]

\* C33: simulation yields accepting transcripts.  For every statement with
\* at least one constraint, every challenge e and every response z of
\* length num_scalars, simulate_commitment(z, e) returns T with
\* T[i] = phi(z)[i] - e * x[i] for every constraint i, and
\* verifier(T, e, z) accepts.
C33_Simulation ==
    \A o \in Objects :
        (/\ outputs[o].op = "commitment"
         /\ instances[1].linear_map.num_constraints >= 1)
            => /\ outputs[o].exc = "None"
               /\ outputs[o].commitment =
                    SimulatedCommitment(instances[1], outputs[o].response,
                                        outputs[o].challenge)
               /\ verifier(instances[1], outputs[o].commitment,
                           outputs[o].challenge, outputs[o].response).exc = "None"

\* the transcript the claim describes is an accepting one
C33_Intended ==
    \A o \in Objects :
        outputs[o].op = "commitment"
            => verifier(instances[1],
                        SimulatedCommitment(instances[1], outputs[o].response,
                                            outputs[o].challenge),
                        outputs[o].challenge, outputs[o].response).exc = "None"

----------------------------------------------------------------------------
(* SpecExtract: two runs of SchnorrProof.verifier on one commitment        *)

ExtractCases == {discrete_logarithm(3), dleq(5, 7), pedersen_commitment(5, 2, 9)}

\* the scalars offered in a response, the nonces behind the commitments
\* offered, and the challenges offered (two of them equal modulo the order)
ExtractPool == {0, 2, 3, 7, 8, 9}
ExtractNonces == {0, 3}
ExtractChallenges == {0, 1, order + 1}

ExtractCommitments ==
    {LinearMap_call(instances[1].linear_map, nonces).val :
        nonces \in [1..instances[1].linear_map.num_scalars -> ExtractNonces]}

ExtractResponses == [1..instances[1].linear_map.num_scalars -> ExtractPool]

InitExtract ==
    /\ \E c \in ExtractCases :
          instances = <<c.statement>> /\ witnesses = <<c.witness>>
    /\ ciphersuite = "none"
    /\ session = [o \in Objects |-> NoSession]
    /\ xof = <<>>
    /\ rngs = [o \in Objects |-> <<>>]
    /\ outputs = [o \in Objects |-> NoOutput]

\* protocol.verifier(commitment, challenge, response)
ExtractFirst ==
    /\ outputs["first"].op = "none"
    /\ \E commitment \in ExtractCommitments, challenge \in ExtractChallenges,
          response \in ExtractResponses :
       \E verdict \in {verifier(instances[1], commitment, challenge, response)} :
          outputs' = [outputs EXCEPT !["first"] =
              [op |-> "verifier", commitment |-> commitment,
               challenge |-> challenge, response |-> response,
               exc |-> verdict.exc]]
    /\ UNCHANGED <<instances, witnesses, ciphersuite, session, xof, rngs>>

\* protocol.verifier(commitment, challenge, response) once more, on the
\* commitment of an accepted transcript
ExtractSecond ==
    /\ outputs["first"].op = "verifier"
    /\ outputs["first"].exc = "None"
    /\ outputs["second"].op = "none"
    /\ \E challenge \in ExtractChallenges, response \in ExtractResponses :
       \E verdict \in {verifier(instances[1], outputs["first"].commitment,
                                challenge, response)} :
          outputs' = [outputs EXCEPT !["second"] =
              [op |-> "verifier", commitment |-> outputs["first"].commitment,
               challenge |-> challenge, response |-> response,
               exc |-> verdict.exc]]
    /\ UNCHANGED <<instances, witnesses, ciphersuite, session, xof, rngs>>

NextExtract == ExtractFirst \/ ExtractSecond

SpecExtract == InitExtract /\ [][NextExtract]_vars

\* two accepted transcripts on one commitment with challenges that differ
\* modulo the order
Colliding ==
    /\ outputs["first"].op = "verifier" /\ outputs["first"].exc = "None"
    /\ outputs["second"].op = "verifier" /\ outputs["second"].exc = "None"
    /\ outputs["first"].commitment = outputs["second"].commitment
    /\ outputs["first"].challenge % order # outputs["second"].challenge % order

\* w = (z - z') / (e - e'), component-wise in the scalar field
Extracted ==
    [i \in 1..instances[1].linear_map.num_scalars |->
        Field_div(Field_sub(outputs["first"].response[i],
                            outputs["second"].response[i], order),
                  Field_sub(outputs["first"].challenge % order,
                            outputs["second"].challenge % order, order),
                  order)]

\* C34: special soundness.  If verifier accepts (T, e, z) and (T, e', z')
\* with the same commitment T and e # e' (mod n), then
\* w = (z - z') / (e - e') satisfies phi(w) = image.
C34_SpecialSoundness ==
    Colliding =>
        LinearMap_call(instances[1].linear_map, Extracted)
            = image(instances[1])

\* two accepted transcripts whose extracted witness is another one than the
\* witness the statement was built from
C34_Witness ==
    /\ Colliding
    /\ Extracted # witnesses[1]

----------------------------------------------------------------------------
(* SpecSteps: SchnorrProof.prover_commit, then prover_response             *)

InitSteps ==
    /\ \E c \in Cases : instances = <<c.statement>> /\ witnesses = <<c.witness>>
    /\ ciphersuite = "none"
    /\ session = [o \in Objects |-> NoSession]
    /\ xof = <<>>
    /\ rngs = [o \in Objects |-> <<>>]
    /\ outputs = [o \in Objects |-> NoOutput]

\* (prover_state, commitment) = protocol.prover_commit(witness, TestDRNG(seed))
StepCommit(o, seed) ==
    /\ outputs[o].op = "none"
    /\ \E out \in {prover_commit(instances[1], witnesses[1], TestDRNG(seed))} :
          /\ rngs' = [rngs EXCEPT ![o] = out.rng]
          /\ outputs' = [outputs EXCEPT ![o] =
                 [op |-> "prover_commit", exc |-> out.exc, seed |-> seed,
                  prover_state |-> out.prover_state,
                  commitment |-> out.commitment]]
    /\ UNCHANGED <<instances, witnesses, ciphersuite, session, xof>>

\* response = protocol.prover_response(prover_state, challenge)
StepResponse(o, challenge) ==
    /\ outputs[o].op = "prover_commit"
    /\ outputs[o].exc = "None"
    /\ \E out \in {prover_response(instances[1], outputs[o].prover_state, challenge)} :
          outputs' = [outputs EXCEPT ![o] =
              [@ EXCEPT !.op = "prover_response", !.exc = out.exc]
                 @@ [challenge |-> challenge, response |-> out.val]]
    /\ UNCHANGED <<instances, witnesses, ciphersuite, session, xof, rngs>>

NextSteps ==
    \/ \E o \in Objects, seed \in Seeds : StepCommit(o, seed)
    \/ \E o \in Objects, challenge \in ChallengePool : StepResponse(o, challenge)

SpecSteps == InitSteps /\ [][NextSteps]_vars

RECURSIVE AfterDraws(_, _)
\* a generator after count draws
AfterDraws(rng, count) ==
    IF count = 0 THEN rng ELSE DRNG_next(AfterDraws(rng, count - 1))

\* the scalar draw number i of a generator yields
NthDraw(rng, i) ==
    DRNG_randint(AfterDraws(rng, i - 1), 1, order - 1).val % order

\* sum over the terms of constraint k of nonces[scalar] * element
RECURSIVE TermSum(_, _, _)
TermSum(lc, scalars, j) ==
    IF j = 0 THEN identity
    ELSE Point_add(TermSum(lc, scalars, j - 1),
                   Point_mul(instances[1].linear_map.group_elements[lc.element_indices[j] + 1],
                             scalars[lc.scalar_indices[j] + 1]))

Committed(o) == outputs[o].op \in {"prover_commit", "prover_response"}

\* C35: commit and response steps.  prover_commit draws exactly num_scalars
\* nonces from the RNG and returns the prover state (witness, nonces) and the
\* commitment T = phi(nonces) of num_constraints elements; prover_response
\* with challenge e returns z of length num_scalars with
\* z[i] = nonces[i] + witness[i] * e in the scalar field for every i.
C35_CommitResponse ==
    \A o \in Objects :
        LET lm == instances[1].linear_map
        IN /\ Committed(o) =>
                /\ outputs[o].exc = "None" \/ outputs[o].op = "prover_response"
                /\ rngs[o] = AfterDraws(TestDRNG(outputs[o].seed), lm.num_scalars)
                /\ outputs[o].prover_state.witness = witnesses[1]
                /\ Len(outputs[o].prover_state.nonces) = lm.num_scalars
                /\ \A i \in 1..lm.num_scalars :
                       outputs[o].prover_state.nonces[i]
                           = NthDraw(TestDRNG(outputs[o].seed), i)
                /\ Len(outputs[o].commitment) = lm.num_constraints
                /\ \A k \in 1..lm.num_constraints :
                       outputs[o].commitment[k]
                           = TermSum(lm.linear_combinations[k],
                                     outputs[o].prover_state.nonces,
                                     Len(lm.linear_combinations[k].scalar_indices))
           /\ outputs[o].op = "prover_response" =>
                /\ outputs[o].exc = "None"
                /\ Len(outputs[o].response) = lm.num_scalars
                /\ \A i \in 1..lm.num_scalars :
                       outputs[o].response[i]
                           = (outputs[o].prover_state.nonces[i]
                                + witnesses[1][i] * outputs[o].challenge) % order

\* a Pedersen commitment whose two nonces differ, answered with a challenge
\* beyond the order
C35_Witness ==
    \E o \in Objects :
        /\ outputs[o].op = "prover_response"
        /\ instances[1].linear_map.num_scalars = 2
        /\ outputs[o].prover_state.nonces[1] # outputs[o].prover_state.nonces[2]
        /\ outputs[o].challenge = order + 1
        /\ outputs[o].response # outputs[o].prover_state.nonces

----------------------------------------------------------------------------
(* The builder of SpecBuilder, once every element variable has a value     *)

\* every allocated element variable has been assigned
AllAssigned(rel) ==
    \A i \in 1..Len(rel.element_vars) :
        rel.element_vars[i] \in DOMAIN rel.element_values

RECURSIVE EquationSum(_, _, _)
\* the sum over the first j terms (scalar_id, element_id) of an equation of
\* s[scalar_id] times the value assigned to element_id
EquationSum(rel, terms, j) ==
    IF j = 0 THEN identity
    ELSE Point_add(EquationSum(rel, terms, j - 1),
                   Point_mul(rel.element_values[terms[j][2]],
                             BuilderWitness(rel)[terms[j][1] + 1]))

\* every equation names allocated scalars and assigned elements only
Evaluable(rel) ==
    \A k \in 1..Len(rel.equations) : \A t \in 1..Len(rel.equations[k][2]) :
        /\ rel.equations[k][2][t][1] < Len(rel.scalar_vars)
        /\ rel.equations[k][2][t][2] \in DOMAIN rel.element_values

\* what the compiled map is to return on the scalars offered: for each
\* equation the sum over its terms
Compiled(rel) ==
    IF Evaluable(rel)
    THEN Ok([k \in 1..Len(rel.equations) |->
               EquationSum(rel, rel.equations[k][2], Len(rel.equations[k][2]))])
    ELSE Raise("undefined")

\* C36: compilation of the builder.  Once every allocated element variable
\* has been assigned, in whatever order allocate_scalars, allocate_elements,
\* append_equation and set_elements were called, group_elements[i] is the
\* value of the i-th allocated element variable, num_elements is the number
\* of allocated element variables, and the compiled map evaluates equation
\* k on scalars s as the sum over its terms (scalar_id, element_id) of
\* s[scalar_id] times the value assigned to element_id.  The calls are the
\* ones that returned: every append_equation added its constraint.
C36_Compiled ==
    \A o \in Builders :
        LET rel == rngs[o].rel
        IN (/\ AllAssigned(rel)
            /\ Len(rel.equations) = Len(rel.linear_map.linear_combinations))
           =>
             /\ Len(rel.linear_map.group_elements) = Len(rel.element_vars)
             /\ \A i \in 1..Len(rel.element_vars) :
                    rel.linear_map.group_elements[i]
                        = rel.element_values[rel.element_vars[i]]
             /\ rel.linear_map.num_elements = Len(rel.element_vars)
             /\ LinearMap_call(rel.linear_map, BuilderWitness(rel)) = Compiled(rel)

\* the same where the last set_elements came after the last
\* allocate_elements, as in the statements of the tests
C36_CompiledInOrder ==
    \A o \in Builders :
        LET rel == rngs[o].rel
        IN (/\ AllAssigned(rel)
            /\ rel.linear_map.num_elements = Len(rel.element_vars)
            /\ Len(rel.equations) = Len(rel.linear_map.linear_combinations))
             => /\ \A i \in 1..Len(rel.element_vars) :
                       rel.linear_map.group_elements[i]
                           = rel.element_values[rel.element_vars[i]]
                /\ LinearMap_call(rel.linear_map, BuilderWitness(rel)) = Compiled(rel)

----------------------------------------------------------------------------
(* SpecField: PrimeFieldElement.sqrt and is_square on every element of the *)
(* field                                                                   *)

\* the integers given to the field's constructor, which reduces them
FieldValues == 0..(P256_p + 1)

InitField ==
    /\ instances = <<>>
    /\ witnesses = <<>>
    /\ ciphersuite = "none"
    /\ session = [o \in Objects |-> NoSession]
    /\ xof = <<>>
    /\ rngs = [o \in Objects |-> <<>>]
    /\ outputs = [o \in Objects |-> NoOutput]

\* field(value).sqrt()
FieldSqrt ==
    /\ outputs["first"].op = "none"
    /\ \E value \in FieldValues :
          outputs' = [outputs EXCEPT !["first"] =
              [op |-> "sqrt", value |-> value % P256_p,
               exc |-> sqrt(value % P256_p, P256_p).exc,
               root |-> sqrt(value % P256_p, P256_p).val]]
    /\ UNCHANGED <<instances, witnesses, ciphersuite, session, xof, rngs>>

\* field(value).is_square(), for the element sqrt was called on
FieldIsSquare ==
    /\ outputs["first"].op = "sqrt"
    /\ outputs["second"].op = "none"
    /\ outputs' = [outputs EXCEPT !["second"] =
           [op |-> "is_square", value |-> outputs["first"].value,
            square |-> is_square(outputs["first"].value, P256_p)]]
    /\ UNCHANGED <<instances, witnesses, ciphersuite, session, xof, rngs>>

NextField == FieldSqrt \/ FieldIsSquare

SpecField == InitField /\ [][NextField]_vars

\* C37: square roots agree with is_square.  In GF(p) with p = 3 (mod 4),
\* for every element a, sqrt(a) returns an element r with r * r = a exactly
\* when is_square(a) is True, and returns no root (None) exactly when
\* is_square(a) is False.
C37_SqrtAgrees ==
    outputs["second"].op = "is_square" =>
        /\ outputs["second"].square <=>
              /\ outputs["first"].root # None
              /\ (outputs["first"].root * outputs["first"].root) % P256_p
                    = outputs["first"].value
        /\ ~outputs["second"].square <=> outputs["first"].root = None

\* the two agree on every element but zero
C37_AgreesButZero ==
    (outputs["second"].op = "is_square" /\ outputs["first"].value # 0) =>
        /\ outputs["second"].square <=>
              /\ outputs["first"].root # None
              /\ (outputs["first"].root * outputs["first"].root) % P256_p
                    = outputs["first"].value
        /\ ~outputs["second"].square <=> outputs["first"].root = None

----------------------------------------------------------------------------
(* SpecMul: EllipticCurvePoint.__mul__, one iteration of its loop at a     *)
(* time                                                                    *)

\* a double-and-add that never doubles the addend
double_and_add_undoubled(result, addend, scalar) ==
    [result |-> IF scalar % 2 = 1 THEN Point_add(result, addend) ELSE result,
     addend |-> addend,
     scalar |-> scalar \div 2]

\* the body of the while loop of __mul__
double_and_add(result, addend, scalar) ==
    [result |-> IF scalar % 2 = 1 THEN Point_add(result, addend) ELSE result,
     addend |-> Point_add(addend, addend),
     scalar |-> scalar \div 2]

\* the points and the integers offered: the identity, points of the curve
\* and their negations; scalars below zero, small, and about the order
MulPoints ==
    {identity, generator, Point_neg(generator), Point_mul(generator, 5),
     Point_mul(generator, order - 2)}
MulScalars == ((0 - 12)..40) \cup ((order - 2)..(order + 2))

InitMul ==
    /\ instances = <<>>
    /\ witnesses = <<>>
    /\ ciphersuite = "none"
    /\ session = [o \in Objects |-> NoSession]
    /\ xof = <<>>
    /\ rngs = [o \in Objects |-> <<>>]
    /\ outputs = [o \in Objects |-> NoOutput]

\* P * k up to the loop: zero returns the identity, a negative scalar
\* becomes (-P) * (-k), then result = infinity and addend = the point
MulCall ==
    /\ outputs["first"].op = "none"
    /\ \E P \in MulPoints, k \in MulScalars :
          outputs' = [outputs EXCEPT !["first"] =
              [op |-> IF k = 0 THEN "returned" ELSE "loop",
               P |-> P, k |-> k,
               result |-> Infinity,
               addend |-> IF k < 0 THEN Point_neg(P) ELSE P,
               scalar |-> IF k < 0 THEN 0 - k ELSE k]]
    /\ UNCHANGED <<instances, witnesses, ciphersuite, session, xof, rngs>>

\* one iteration of while scalar: ..., and the return when scalar is zero
MulStep ==
    /\ outputs["first"].op = "loop"
    /\ \E next \in {double_and_add(outputs["first"].result,
                                   outputs["first"].addend,
                                   outputs["first"].scalar)} :
          outputs' = [outputs EXCEPT !["first"] =
              [@ EXCEPT !.op = IF next.scalar = 0 THEN "returned" ELSE "loop",
                        !.result = next.result,
                        !.addend = next.addend,
                        !.scalar = next.scalar]]
    /\ UNCHANGED <<instances, witnesses, ciphersuite, session, xof, rngs>>

NextMul == MulCall \/ MulStep

\* the loop is run by the one thread that called __mul__
SpecMul == InitMul /\ [][NextMul]_vars /\ WF_vars(NextMul)

RECURSIVE KFold(_, _, _)
\* P + ... + P, k times, added to acc
KFold(P, k, acc) == IF k = 0 THEN acc ELSE KFold(P, k - 1, Point_add(acc, P))

MulReturned == outputs["first"].op = "returned"

\* what __mul__ returned is the k-fold sum, of -P for a negative k, it is
\* what Point_mul gives, and it is the identity or on the curve
MulIsSum ==
    MulReturned =>
        /\ outputs["first"].result =
             IF outputs["first"].k < 0
             THEN KFold(Point_neg(outputs["first"].P), 0 - outputs["first"].k, identity)
             ELSE KFold(outputs["first"].P, outputs["first"].k, identity)
        /\ outputs["first"].result = Point_mul(outputs["first"].P, outputs["first"].k)
        /\ outputs["first"].k < 0 =>
             outputs["first"].result
                = Point_mul(Point_neg(outputs["first"].P), 0 - outputs["first"].k)
        /\ OnCurve(outputs["first"].result)

\* C38: scalar multiplication equals repeated addition.  For every curve
\* point P (the identity included) and every integer k >= 0, P * k returned
\* by the double-and-add loop equals the k-fold sum P + ... + P (the
\* identity for k = 0), the loop terminates, and for k < 0,
\* P * k = (-P) * (-k); every returned point is the identity or satisfies
\* the curve equation.
C38_ScalarMul ==
    /\ []MulIsSum
    /\ (outputs["first"].op = "loop") ~> MulReturned

\* a point other than the identity multiplied by a negative scalar, and a
\* result other than the identity returned
C38_Witness ==
    /\ MulReturned
    /\ outputs["first"].k < 0 - 8
    /\ ~outputs["first"].P.is_infinity
    /\ ~outputs["first"].result.is_infinity


----------------------------------------------------------------------------
(* Spec: what prove returns to a fresh object, as a function of the        *)
(* session identifier, the statement, the witness and the seed             *)

\* the bytes of Codec.init(session_id, label of the statement)
InitBytesOf(session_id) ==
    Lit(LengthOctets(Len(session_id)) \o session_id \o LengthOctets(DigestSize))
      \o LinearRelation_get_label(instances[1]).val

\* the nonces a generator of this seed gives: its first num_scalars draws
PureNonces(seed) ==
    [i \in 1..instances[1].linear_map.num_scalars |-> NthDraw(TestDRNG(seed), i)]

\* the commitment: for each constraint the sum over its terms
PureCommitment(seed) ==
    [k \in 1..instances[1].linear_map.num_constraints |->
        TermSum(instances[1].linear_map.linear_combinations[k], PureNonces(seed),
                Len(instances[1].linear_map.linear_combinations[k].scalar_indices))]

\* the proof for a challenge: the commitment, then nonce + witness * challenge
PureProof(seed, challenge) ==
    Group_serialize(PureCommitment(seed))
      \o Scalar_serialize([i \in 1..instances[1].linear_map.num_scalars |->
             (PureNonces(seed)[i] + witnesses[1][i] * challenge) % order])

\* the first prove of an object made with this session identifier
FreshProof(o) == outputs[o].op = "prove" /\ outputs[o].fresh

\* C6: determinism under a fixed RNG.  Two freshly constructed
\* NIZK(session_id, instance) objects given the same session_id, instance
\* and witness, and deterministic RNGs in the same initial state, return
\* byte-identical proofs from prove: the proof of a fresh object is a
\* function of these alone, its challenge being what the hash yields for
\* the init bytes followed by the commitment.
C6_Determinism ==
    \A o1 \in Objects : \A o2 \in Objects :
        (/\ FreshProof(o1) /\ FreshProof(o2)
         /\ outputs[o1].seed = outputs[o2].seed
         /\ session[o1].session_id = session[o2].session_id)
            => /\ outputs[o1].exc = "None" /\ outputs[o2].exc = "None"
               /\ outputs[o1].proof = outputs[o2].proof
               /\ outputs[o1].uniform_bytes[1].input
                    = InitBytesOf(session[o1].session_id)
                        \o Lit(Group_serialize(PureCommitment(outputs[o1].seed)))
               /\ outputs[o1].uniform_bytes \in DOMAIN xof
               /\ outputs[o1].proof
                    = PureProof(outputs[o1].seed,
                                BigEndian(xof[outputs[o1].uniform_bytes], 0) % order)

\* two objects made with one session identifier have each proved once, from
\* generators of one seed, after a challenge other than zero
C6_Witness ==
    /\ FreshProof("first") /\ FreshProof("second")
    /\ outputs["first"].seed = outputs["second"].seed
    /\ session["first"].session_id = session["second"].session_id
    /\ outputs["first"].exc = "None"
    /\ outputs["first"].challenge # 0
    /\ Len(outputs["first"].proof) > 0
    /\ outputs["first"].proof = outputs["second"].proof
====
